---- MODULE Spec2Model ----
(***************************************************************************)
(* Verification model of the tycho consensus core:                         *)
(*   - DagLocation / InclusionState / Signable  (dag/dag_location.rs)      *)
(*   - Downloader limiter and DownloadTask      (intercom/dependency/      *)
(*                                               downloader.rs)            *)
(*   - Engine::pre_run and Engine::run          (engine/impl_.rs)          *)
(*   - the signatures of a validator set at one anchor location            *)
(*   - Point: new, is_integrity_ok, is_well_formed    (models/point.rs)    *)
(*   - CachedConfig::init                     (engine/mempool_config.rs)   *)
(*   - ChainBlockProvider          (core/block_strider/provider/mod.rs)    *)
(* Every part has its own specification (SpecLoc, SpecLim, SpecLimFair,    *)
(* SpecDl, SpecDlHolders, SpecDlAuthor, SpecFan, SpecEng, SpecRestart,     *)
(* SpecSet, SpecPnt, SpecForm, SpecWide, SpecCfg, SpecCfgAgain, SpecChn);  *)
(* the variables of the other parts stay at their idle value.              *)
(***************************************************************************)
EXTENDS Integers, Sequences, FiniteSets, Bags, TLC

VARIABLES
    \* ---- DagLocation ----
    versions,     \* DagLocation.versions: Digest -> shared future
    state,        \* DagLocation.state: InclusionState = OnceLock<Signable>
    order,        \* digests in the order add_validate inserted them
    call,         \* the last call made on the location, with its result
    inits,        \* how many times the init closure of a digest was invoked
    panicked,     \* an assert!/panic! of the location code has fired
    \* ---- Downloader limiter ----
    limiter,      \* Limiter {running, waiters}
    lpc,          \* where each Downloader::run call stands
    lround,       \* the round a waiting call was enqueued under (0: not waiting)
    permits,      \* permits of the semaphore enter() made for the call
    arrival,      \* the calls that wait, in the order they were enqueued
    woken,        \* the calls the last Limiter::exit has woken
    lpanic,       \* a panic! of the limiter code has fired
    \* ---- DownloadTask ----
    task,         \* the DownloadTask
    dres,         \* "idle", "running" or the DownloadResult the task returned
    deniers,      \* how many distinct peers have answered Defined(None)
    senders,      \* the senders of dependers and verified_broadcast: held or dropped
    verified_broadcast,  \* the oneshot channel: "pending", "sent" or "taken"
    \* ---- Engine: pre_run and run ----
    consensus_round,  \* RoundWatch<Consensus>
    epc,              \* where the engine is: "pre_run", "loop", "await", "stopped"
    committer_run,    \* the commit task and the Committer it owns
    committed_info,   \* what was sent to committed_info_tx, in order
    spawned,          \* how many commit tasks were spawned
    dag_top,          \* the round of self.dag.top(), 0 for an empty DagFront
    failure,          \* how the engine task ended: "none", "assert",
                      \* "resume_unwind" or "panic"
    published,        \* the last next_round the loop gave to set_max
    store,            \* what the store held when pre_run read it
    restored,         \* the rounds whose infos pre_run restored into the DAG
    start_point,      \* round of the own point pre_run returned, 0 for None
    own_point,        \* the own point the last iteration gave the round task
    rounds_buffer,    \* the DAG rounds made since the commit task was spawned
    moved_rounds_buf, \* the rounds the spawned commit task has not yet taken in
    \* ---- signatures and anchors of a validator set ----
    faulty,       \* the Byzantine validators
    produced,     \* digests of the points the leader made for its location
    incl,         \* the InclusionState each validator has for that location
    sigs,         \* <<validator, digest>>: signatures that were given
    anchors,      \* the anchor each validator committed, 0 for none
    \* ---- Point ----
    cur_point,    \* the point at hand: body, digest, signature
    new_point,    \* the point as Point::new returned it
    ppc,          \* "none", "new", "changed", "panicked" or "checked"
    well_formed,  \* what is_well_formed returned for the point, "none" before
    \* ---- CachedConfig ----
    CONFIG,       \* static CONFIG: OnceLock<MempoolConfig>, of each process
    GENESIS,      \* static GENESIS: OnceLock<PointId>, of each process
    init_call,    \* the last call of CachedConfig::init in each process
    inits_made,   \* how many calls of CachedConfig::init each process made
    aligned,      \* what align_genesis of the build gives for each start round
    \* ---- ChainBlockProvider ----
    is_right,     \* ChainBlockProvider.is_right
    has_block,    \* whether the left and the right provider have a next block
    next_call,    \* where each call of get_next_block stands, and its result
    left_none     \* the left provider has returned None to get_next_block

locVars == <<versions, state, order, call, inits, panicked>>
limVars == <<limiter, lpc, lround, permits, arrival, woken, lpanic>>

dlVars == <<task, dres, deniers, senders, verified_broadcast>>
engVars == <<consensus_round, epc, committer_run, committed_info, spawned,
             dag_top, failure, published, store, restored, start_point, own_point,
             rounds_buffer, moved_rounds_buf>>
setVars == <<faulty, produced, incl, sigs, anchors>>
pntVars == <<cur_point, new_point, ppc, well_formed>>
cfgVars == <<CONFIG, GENESIS, init_call, inits_made, aligned>>
chnVars == <<is_right, has_block, next_call, left_none>>

vars == <<versions, state, order, call, inits, panicked,
          limiter, lpc, lround, permits, arrival, woken, lpanic,
          task, dres, deniers, senders, verified_broadcast,
          consensus_round, epc, committer_run, committed_info, spawned,
          dag_top, failure, published, store, restored, start_point, own_point,
          rounds_buffer, moved_rounds_buf,
          faulty, produced, incl, sigs, anchors,
          cur_point, new_point, ppc, well_formed,
          CONFIG, GENESIS, init_call, inits_made, aligned,
          is_right, has_block, next_call, left_none>>

(***************************************************************************)
(* Bounds of the model                                                     *)
(***************************************************************************)
MaxDigest == 2        \* digests (versions) that may show up at one location
MaxTime == 1          \* UnixTime values 0..MaxTime
MaxCalls == 4         \* Downloader::run calls
MaxLimRound == 2      \* rounds 1..MaxLimRound of the points to download
MaxRound == 5         \* rounds 1..MaxRound
MaxFailed == 1        \* failed queries the undone peers of a task have in total

Digests == 1..MaxDigest
Times == 0..MaxTime

(***************************************************************************)
(* Downloader: Limiter                                                     *)
(***************************************************************************)
\* MempoolConfig::CONCURRENT_DOWNLOADS; its value is set outside the modelled
\* sources, the model takes a small one
CONCURRENT_DOWNLOADS == 1

Calls == 1..MaxCalls
LimRounds == 1..MaxLimRound

Range(seq) == {seq[i] : i \in 1..Len(seq)}

SetMax(S) == CHOOSE x \in S : \A y \in S : y <= x
SetMin(S) == CHOOSE x \in S : \A y \in S : x <= y

\* BTreeMap::entry(round).or_default().push_back(semaphore)
PushWaiter(waiters, round, sem) ==
    IF round \in DOMAIN waiters
    THEN [waiters EXCEPT ![round] = Append(@, sem)]
    ELSE [r \in DOMAIN waiters \cup {round} |->
             IF r = round THEN <<sem>> ELSE waiters[r]]

\* mutant of enter: the counter is compared one too high
enter_late(lim, round, sem) ==
    IF lim.running <= CONCURRENT_DOWNLOADS + 1
    THEN [lim |-> [lim EXCEPT !.running = @ + 1], sem |-> 0]
    ELSE [lim |-> [lim EXCEPT !.waiters = PushWaiter(@, round, sem)], sem |-> sem]

\* Limiter::enter: the limiter after the call and the semaphore returned
\* (0 for None); sem names the semaphore a waiter would get
enter(lim, round, sem) ==
    IF lim.running <= CONCURRENT_DOWNLOADS
    THEN [lim |-> [lim EXCEPT !.running = @ + 1], sem |-> 0]
    ELSE [lim |-> [lim EXCEPT !.waiters = PushWaiter(@, round, sem)], sem |-> sem]

\* what is left of the map after the front of the queue of `round` is popped
PopWaiter(waiters, round) ==
    IF Len(waiters[round]) <= 1
    THEN [r \in DOMAIN waiters \ {round} |-> waiters[r]]
    ELSE [waiters EXCEPT ![round] = Tail(@)]

\* mutant of exit: the waiter of the lowest round is freed
exit_oldest_round(lim) ==
    IF DOMAIN lim.waiters # {}
    THEN LET round == SetMin(DOMAIN lim.waiters) IN
         [lim |-> [lim EXCEPT !.waiters = PopWaiter(@, round)],
          unlock |-> {Head(lim.waiters[round])}, panic |-> FALSE]
    ELSE [lim |-> [lim EXCEPT !.running = @ - 1], unlock |-> {}, panic |-> FALSE]

\* mutant of exit: the waiter is taken from the queue and gets no permit
exit_no_permit(lim) ==
    IF DOMAIN lim.waiters # {}
    THEN LET round == SetMax(DOMAIN lim.waiters) IN
         [lim |-> [lim EXCEPT !.waiters = PopWaiter(@, round)],
          unlock |-> {}, panic |-> FALSE]
    ELSE [lim |-> [lim EXCEPT !.running = @ - 1], unlock |-> {}, panic |-> FALSE]

\* mutant of exit: the counter goes down also when a waiter is woken
exit_always_decrements(lim) ==
    IF DOMAIN lim.waiters # {}
    THEN LET round == SetMax(DOMAIN lim.waiters) IN
         [lim |-> [lim EXCEPT !.waiters = PopWaiter(@, round), !.running = @ - 1],
          unlock |-> {Head(lim.waiters[round])}, panic |-> FALSE]
    ELSE [lim |-> [lim EXCEPT !.running = @ - 1], unlock |-> {}, panic |-> FALSE]

\* Limiter::exit: the limiter after the call, the semaphore that got a permit
\* and whether the call panicked
exit(lim) ==
    IF DOMAIN lim.waiters # {}
    THEN LET round == SetMax(DOMAIN lim.waiters) IN
         IF lim.waiters[round] = <<>>
         THEN [lim |-> lim, unlock |-> {}, panic |-> TRUE]
         ELSE [lim |-> [lim EXCEPT !.waiters = PopWaiter(@, round)],
               unlock |-> {Head(lim.waiters[round])}, panic |-> FALSE]
    ELSE IF lim.running = 0
         THEN [lim |-> lim, unlock |-> {}, panic |-> TRUE]
         ELSE [lim |-> [lim EXCEPT !.running = @ - 1],
               unlock |-> {}, panic |-> FALSE]

LimFrame == UNCHANGED <<locVars, dlVars, engVars, setVars, pntVars, cfgVars, chnVars>>

\* Limiter::default and no call of Downloader::run yet
IdleLim ==
    /\ limiter = [running |-> 0, waiters |-> <<>>]
    /\ lpc = [c \in Calls |-> "new"]
    /\ lround = [c \in Calls |-> 0]
    /\ permits = [c \in Calls |-> 0]
    /\ arrival = <<>>
    /\ woken = {}
    /\ lpanic = FALSE

\* Downloader::run up to the end of its first block: limiter.enter(round)
RunEnter(c, round) ==
    /\ ~lpanic
    /\ lpc[c] = "new"
    /\ LET got == enter(limiter, round, c) IN
         /\ limiter' = got.lim
         /\ lpc' = [lpc EXCEPT ![c] = IF got.sem = 0 THEN "run_task" ELSE "acquire"]
         /\ arrival' = IF got.sem = 0 THEN arrival ELSE Append(arrival, c)
         /\ lround' = [lround EXCEPT ![c] = IF got.sem = 0 THEN 0 ELSE round]
    /\ woken' = {}
    /\ UNCHANGED <<permits, lpanic>>
    /\ LimFrame

\* Downloader::run: semaphore.acquire().await returns the permit
RunAcquire(c) ==
    /\ ~lpanic
    /\ lpc[c] = "acquire"
    /\ permits[c] > 0
    /\ permits' = [permits EXCEPT ![c] = @ - 1]
    /\ lpc' = [lpc EXCEPT ![c] = "run_task"]
    /\ woken' = {}
    /\ UNCHANGED <<limiter, lround, arrival, lpanic>>
    /\ LimFrame

\* Downloader::run: run_task has returned, limiter.exit()
RunExit(c) ==
    /\ ~lpanic
    /\ lpc[c] = "run_task"
    /\ LET got == exit(limiter) IN
         /\ limiter' = got.lim
         /\ lpanic' = (got.panic \/ \E w \in got.unlock : permits[w] # 0)
         /\ permits' = [w \in Calls |->
                           IF w \in got.unlock /\ permits[w] = 0
                           THEN 1 ELSE permits[w]]
         /\ woken' = {[call |-> w, round |-> lround[w]] : w \in got.unlock}
         /\ arrival' = SelectSeq(arrival, LAMBDA w : w \notin got.unlock)
         /\ lround' = [w \in Calls |-> IF w \in got.unlock THEN 0 ELSE lround[w]]
    /\ lpc' = [lpc EXCEPT ![c] = "done"]
    /\ LimFrame

\* the future of Downloader::run is dropped at one of its two await points
RunDropped(c) ==
    /\ ~lpanic
    /\ lpc[c] \in {"acquire", "run_task"}
    /\ lpc' = [lpc EXCEPT ![c] = "dropped"]
    /\ woken' = {}
    /\ UNCHANGED <<limiter, lround, permits, arrival, lpanic>>
    /\ LimFrame

\* one more call of Downloader::run, for another point: the model names it as
\* a call that has returned
RunAgain(c) ==
    /\ ~lpanic
    /\ lpc[c] = "done"
    /\ lpc' = [lpc EXCEPT ![c] = "new"]
    /\ woken' = {}
    /\ UNCHANGED <<limiter, lround, permits, arrival, lpanic>>
    /\ LimFrame

NextLim ==
    \/ \E c \in Calls, r \in LimRounds : RunEnter(c, r)
    \/ \E c \in Calls : RunAcquire(c)
    \/ \E c \in Calls : RunExit(c)
    \/ \E c \in Calls : RunDropped(c)

\* calls keep coming and no future is dropped
NextLimFair ==
    \/ \E c \in Calls, r \in LimRounds : RunEnter(c, r)
    \/ \E c \in Calls : RunAcquire(c)
    \/ \E c \in Calls : RunExit(c)
    \/ \E c \in Calls : RunAgain(c)

\* every task that was let in returns, a waiter that got its permit goes on
FairLim == \A c \in Calls : WF_vars(RunExit(c)) /\ WF_vars(RunAcquire(c))

\* calls the limiter has let in and that have not left run_task
Admitted == {c \in Calls : lpc[c] = "run_task" \/ (lpc[c] = "acquire" /\ permits[c] > 0)}

\* calls that wait for a permit
Waiting == {c \in Calls : lpc[c] \in {"acquire", "dropped"} /\ c \in Range(arrival)}

(***************************************************************************)
(* DagLocation, InclusionState, Signable                                   *)
(***************************************************************************)
\* round of the modelled location; others' points are signed at the next round
LocRound == 1
SignRounds == {LocRound, LocRound + 1}

\* enum DagPoint
Verdicts == {"Trusted", "Suspicious", "Invalid", "IllFormed", "NotFound"}
ValidVerdicts == {"Trusted", "Suspicious"}

\* only valid points carry the point (and its time)
DagPoint(kind, digest, time) ==
    [kind |-> kind, digest |-> digest,
     time |-> IF kind \in ValidVerdicts THEN time ELSE 0]

DagPoints == {DagPoint(k, d, t) : k \in Verdicts, d \in Digests, t \in Times}

\* the points a caller hands to insert_own_point: own points are Trusted
OwnPoints == {p \in DagPoints : p.kind = "Trusted"}

Absent == [st |-> "absent"]
Pending(hook, equiv) == [st |-> "pending", hook |-> hook, equiv |-> equiv]
\* a completed future; the location reads no output of a future, the verdict
\* reaches it through the inspect hook and InclusionState::init only
Ready(point) == [st |-> "ready"]

\* OnceLock values
Unset == [tag |-> "unset"]
Reject == [tag |-> "err"]
OkSigned(at, key, digest) ==
    [tag |-> "ok", at |-> at, with |-> [key |-> key, over |-> digest]]

Empty == [init |-> FALSE]
Signable(first_completed, signed) ==
    [init |-> TRUE, first_completed |-> first_completed, signed |-> signed]

NoCall == [op |-> "none", ret |-> "unit"]

\* mutant of filter: every valid point passes, a Suspicious one included
filter_valid(first_completed) == first_completed.kind \in ValidVerdicts

\* Signable::filter: Some(valid) only for DagPoint::Trusted
filter(first_completed) == first_completed.kind = "Trusted"

\* OnceLock::set on Signable.signed: keeps a value that is already there
OnceSet(cell, value) == IF cell = Unset THEN value ELSE cell

\* mutant of init: the verdict is not filtered, nothing is rejected at init
init_unfiltered(st, first_completed) ==
    IF st.init THEN st ELSE Signable(first_completed, Unset)

\* mutant of init: the state is set again by every completed validation
init_overwrite(st, first_completed) ==
    Signable(first_completed, IF filter(first_completed) THEN Unset ELSE Reject)

\* InclusionState::init as the closure of OnceLock::get_or_init
init(st, first_completed) ==
    IF st.init THEN st
    ELSE Signable(first_completed,
                  IF filter(first_completed) THEN Unset ELSE Reject)

\* mutant of reject: the cell is overwritten instead of set once
reject_overwrite(sg) == [sg EXCEPT !.signed = Reject]

\* Signable::reject
reject(sg) == [sg EXCEPT !.signed = OnceSet(sg.signed, Reject)]

\* RangeInclusive::contains
contains(start, end, t) == start <= t /\ t <= end

\* mutant of sign: the time range is not looked at
sign_any_time(sg, at, key_pair, start, end) ==
    IF sg.first_completed.kind = "Trusted" /\ key_pair
    THEN [sg EXCEPT !.signed =
             IF sg.signed = Unset
             THEN OkSigned(at, "local", sg.first_completed.digest)
             ELSE sg.signed]
    ELSE [sg EXCEPT !.signed = IF sg.signed = Unset THEN Reject ELSE sg.signed]

\* mutant of sign: a point that is too new for the range is rejected
sign_no_defer(sg, at, key_pair, start, end) ==
    IF filter(sg.first_completed) /\ key_pair
    THEN IF contains(start, end, sg.first_completed.time)
         THEN [sg EXCEPT !.signed =
                  OnceSet(sg.signed, OkSigned(at, "local", sg.first_completed.digest))]
         ELSE reject(sg)
    ELSE reject(sg)

\* Signable::sign: the Signable after the call
sign(sg, at, key_pair, start, end) ==
    IF filter(sg.first_completed) /\ key_pair
    THEN IF contains(start, end, sg.first_completed.time)
         THEN [sg EXCEPT !.signed =
                  OnceSet(sg.signed, OkSigned(at, "local", sg.first_completed.digest))]
         ELSE IF sg.first_completed.time < start
              THEN reject(sg)
              ELSE sg
    ELSE reject(sg)

\* Signable::sign: this_call_signed, set inside the get_or_init closure only
this_call_signed(sg, at, key_pair, start, end) ==
    /\ filter(sg.first_completed) /\ key_pair
    /\ contains(start, end, sg.first_completed.time)
    /\ sg.signed = Unset

\* mutant of insert_own_point: the own point is stored as first completed
\* but the signed cell is left unset
insert_own_point_unsigned(my_point) == Signable(my_point, Unset)

\* InclusionState::insert_own_point on an empty state: the own point comes
\* signed, at its round and with its signature
insert_own_point(my_point) ==
    Signable(my_point, OkSigned(LocRound, "local", my_point.digest))

\* Signable::is_completed
is_completed(sg) == sg.signed # Unset

\* InclusionState::signable
signable(st) == IF st.init /\ ~is_completed(st) THEN {st.first_completed} ELSE {}

\* InclusionState::signed
signed(st) == IF st.init THEN st.signed ELSE Unset

\* InclusionState::signed_point: the valid first completed point, if it was
\* signed at this round
signed_point(st, at) ==
    IF st.init /\ st.signed.tag = "ok" /\ st.signed.at = at
          /\ st.first_completed.kind \in ValidVerdicts
    THEN {st.first_completed}
    ELSE {}

\* Verifier::validate as the init future given to add_validate: a version
\* validated while another version is at the location is an equivocation
\* and is at best Suspicious
ValidateVerdicts(equiv) == IF equiv THEN Verdicts \ {"Trusted"} ELSE Verdicts

LocFrame == UNCHANGED <<limVars, dlVars, engVars, setVars, pntVars, cfgVars, chnVars>>

InitLoc ==
    /\ versions = [d \in Digests |-> Absent]
    /\ state = Empty
    /\ order = <<>>
    /\ call = NoCall
    /\ inits = [d \in Digests |-> 0]
    /\ panicked = FALSE

\* mutant of add_validate: the version is inserted whether or not the digest
\* is present already
AddValidate_again(d) ==
    /\ ~panicked
    /\ versions' = [versions EXCEPT ![d] =
           Pending(TRUE, \E o \in Digests : versions[o] # Absent)]
    /\ order' = Append(order, d)
    /\ inits' = [inits EXCEPT ![d] = @ + 1]
    /\ call' = [op |-> "add_validate", digest |-> d, ret |-> "Some"]
    /\ UNCHANGED <<state, panicked>>
    /\ LocFrame

\* DagLocation::add_validate
AddValidate(d) ==
    /\ ~panicked
    /\ IF versions[d] = Absent
       THEN /\ versions' = [versions EXCEPT ![d] =
                   Pending(TRUE, \E o \in Digests : versions[o] # Absent)]
            /\ order' = Append(order, d)
            /\ inits' = [inits EXCEPT ![d] = @ + 1]
            /\ call' = [op |-> "add_validate", digest |-> d, ret |-> "Some"]
       ELSE /\ call' = [op |-> "add_validate", digest |-> d, ret |-> "None"]
            /\ UNCHANGED <<versions, order, inits>>
    /\ UNCHANGED <<state, panicked>>
    /\ LocFrame

\* the handle add_dependency returns: a clone of the Shared future of the
\* entry, named by the init invocation that made the future (0: the ready
\* future of an own point, made without init)
Shared(made) == made

\* mutant of add_dependency: init makes a new future at every call
AddDependency_renew(d) ==
    /\ ~panicked
    /\ versions' = [versions EXCEPT ![d] = Pending(FALSE, FALSE)]
    /\ inits' = [inits EXCEPT ![d] = @ + 1]
    /\ call' = [op |-> "add_dependency", digest |-> d, ret |-> Shared(inits'[d])]
    /\ UNCHANGED <<state, order, panicked>>
    /\ LocFrame

\* mutant of add_dependency: the future is wrapped with the inspect hook
AddDependency_hooked(d) ==
    /\ ~panicked
    /\ IF versions[d] = Absent
       THEN /\ versions' = [versions EXCEPT ![d] = Pending(TRUE, FALSE)]
            /\ inits' = [inits EXCEPT ![d] = @ + 1]
       ELSE UNCHANGED <<versions, inits>>
    /\ call' = [op |-> "add_dependency", digest |-> d, ret |-> Shared(inits'[d])]
    /\ UNCHANGED <<state, order, panicked>>
    /\ LocFrame

\* DagLocation::add_dependency
AddDependency(d) ==
    /\ ~panicked
    /\ IF versions[d] = Absent
       THEN /\ versions' = [versions EXCEPT ![d] = Pending(FALSE, FALSE)]
            /\ inits' = [inits EXCEPT ![d] = @ + 1]
       ELSE UNCHANGED <<versions, inits>>
    /\ call' = [op |-> "add_dependency", digest |-> d, ret |-> Shared(inits'[d])]
    /\ UNCHANGED <<state, order, panicked>>
    /\ LocFrame

\* the JoinTask of a version completes with dag_point; the inspect hook of
\* add_validate hands the verdict to InclusionState::init
Complete(dag_point) ==
    LET d == dag_point.digest IN
    /\ ~panicked
    /\ versions[d].st = "pending"
    /\ versions[d].hook => dag_point.kind \in ValidateVerdicts(versions[d].equiv)
    /\ versions' = [versions EXCEPT ![d] = Ready(dag_point)]
    /\ state' = IF versions[d].hook THEN init(state, dag_point) ELSE state
    /\ call' = [op |-> "complete", ret |-> "unit"]
    /\ UNCHANGED <<order, inits, panicked>>
    /\ LocFrame

\* DagLocation::insert_own_point with InclusionState::insert_own_point
InsertOwnPoint(my_point) ==
    /\ ~panicked
    /\ versions' = [versions EXCEPT ![my_point.digest] = Ready(my_point)]
    /\ call' = [op |-> "insert_own_point", ret |-> "unit"]
    /\ IF versions[my_point.digest] # Absent \/ ~filter(my_point) \/ state.init
       THEN /\ panicked' = TRUE
            /\ UNCHANGED state
       ELSE /\ state' = insert_own_point(my_point)
            /\ UNCHANGED panicked
    /\ UNCHANGED <<order, inits>>
    /\ LocFrame

\* Signable::sign on the Signable of the location
Sign(at, key_pair, start, end) ==
    /\ ~panicked
    /\ state.init
    /\ state' = sign(state, at, key_pair, start, end)
    /\ call' = [op |-> "sign", key_pair |-> key_pair,
                start |-> start, end |-> end,
                ret |-> this_call_signed(state, at, key_pair, start, end)]
    /\ UNCHANGED <<versions, order, inits, panicked>>
    /\ LocFrame

\* Signable::reject on the Signable of the location
RejectCall ==
    /\ ~panicked
    /\ state.init
    /\ state' = reject(state)
    /\ call' = [op |-> "reject", ret |-> "unit"]
    /\ UNCHANGED <<versions, order, inits, panicked>>
    /\ LocFrame

NextLoc ==
    \/ \E d \in Digests : AddValidate(d)
    \/ \E d \in Digests : AddDependency(d)
    \/ \E p \in DagPoints : Complete(p)
    \/ \E p \in OwnPoints : InsertOwnPoint(p)
    \/ \E at \in SignRounds, key \in BOOLEAN, s \in Times, e \in Times :
          Sign(at, key, s, e)
    \/ RejectCall

(***************************************************************************)
(* Downloader: DownloadTask                                                *)
(***************************************************************************)
\* MempoolConfig::DOWNLOAD_PEERS
DOWNLOAD_PEERS == 2

\* the validator set of the next round, peers_state_for(round.next()): N = 3F+1
NValidators == 4

U8_MAX == 255

PeerStates == {"Unknown", "Resolved"}

\* how a peer of the model answers: "any" peers answer anything, a "holder"
\* is honest and has the point, a "faulty" one never gives a reliable answer;
\* "author" is the author of the point told apart, it answers anything
PeerKinds == {"any", "holder", "faulty", "author"}

\* Result<PointByIdResponse>, by the branch of `verify` it takes
Responses == {"TryLater", "Err", "None", "WrongId", "BadSig", "IllFormed", "Ok"}

ResponsesOf(kind) ==
    CASE kind = "holder" -> {"Ok"}
      [] kind = "faulty" -> {"TryLater", "Err", "WrongId", "BadSig"}
      [] OTHER -> Responses

\* PeerStatus; the map undone_peers is kept as the bag of its values (the
\* code never looks at a key but to find its value), with three facts about
\* the peer behind the key: its kind, whether it has answered Defined(None)
\* before, and how many of the futures in `downloading` are queries to it
PeerStatus(peer_state, kind) ==
    [state |-> peer_state, failed_queries |-> 0, is_depender |-> FALSE,
     is_in_flight |-> FALSE, kind |-> kind, denied |-> FALSE, queries |-> 0]

\* the peer of a query whose entry is no longer in undone_peers
Removed == PeerStatus("Removed", "any")

Copies(status, n) == IF n = 0 THEN EmptyBag ELSE [x \in {status} |-> n]

Replace(peers, old, new) == (peers (-) SetToBag({old})) (+) SetToBag({new})

\* PeerCount: the number F of a set of 3F+1 peers
PeerCountF(peer_count) == (peer_count - 1) \div 3

majority_of_others(peer_count) == 2 * PeerCountF(peer_count)

saturating_add(x) == IF x < U8_MAX THEN x + 1 ELSE x

NoTask ==
    [peer_count |-> 0, reliably_not_found |-> 0, unreliable_peers |-> 0,
     undone_peers |-> EmptyBag, downloading |-> 0, attempt |-> 0, panic |-> FALSE,
     orphans |-> 0]

\* DownloadTask as run_task builds it
DownloadTask(validators, author) ==
    [peer_count |-> BagCardinality(validators),
     reliably_not_found |-> 0, unreliable_peers |-> 0,
     undone_peers |-> validators (+) author,
     downloading |-> 0, attempt |-> 0, panic |-> FALSE, orphans |-> 0]

download_one(t, status) ==
    IF status.is_in_flight
    THEN [t EXCEPT !.panic = TRUE]
    ELSE [t EXCEPT !.undone_peers = Replace(@, status, [status EXCEPT !.is_in_flight = TRUE,
                                                                       !.queries = @ + 1]),
                   !.downloading = @ + 1]

\* mutant: a depender is queried at once even when a query to it is in flight
add_depender_again(t, status) ==
    IF ~status.is_depender
    THEN LET marked == [status EXCEPT !.is_depender = TRUE]
             t1 == [t EXCEPT !.undone_peers = Replace(@, status, marked)]
             is_suitable == /\ status.state = "Resolved"
                            /\ status.failed_queries = 0
         IN  IF is_suitable THEN download_one(t1, marked) ELSE t1
    ELSE t

add_depender(t, status) ==
    IF ~status.is_depender
    THEN LET marked == [status EXCEPT !.is_depender = TRUE]
             t1 == [t EXCEPT !.undone_peers = Replace(@, status, marked)]
             is_suitable == /\ ~status.is_in_flight
                            /\ status.state = "Resolved"
                            /\ status.failed_queries = 0
         IN  IF is_suitable THEN download_one(t1, marked) ELSE t1
    ELSE t

match_peer_updates(t, status, new) ==
    LET is_suitable == /\ ~status.is_in_flight
                       /\ status.is_depender
                       /\ status.failed_queries = 0
                       /\ status.state = "Unknown"
                       /\ new = "Resolved"
        updated == [status EXCEPT !.state = new]
        t1 == [t EXCEPT !.undone_peers = Replace(@, status, updated)]
    IN  IF is_suitable THEN download_one(t1, updated) ELSE t1

RECURSIVE Pow(_, _)
Pow(b, e) == IF e = 0 THEN 1 ELSE b * Pow(b, e - 1)

\* DOWNLOAD_PEERS * DOWNLOAD_PEERS^attempt
FanOut(attempt) == DOWNLOAD_PEERS * Pow(DOWNLOAD_PEERS, attempt)

\* from this attempt on the fan-out covers every peer: the u8 values above it
\* are kept as this one value
AttemptCap ==
    LET all == {a \in 0..NValidators : FanOut(a) >= NValidators + 1}
    IN  IF all = {} THEN 0 ELSE SetMin(all)

\* attempt.wrapping_add(1)
wrapping_add(attempt) ==
    IF attempt < AttemptCap THEN {attempt + 1} ELSE {AttemptCap, 0}

\* mutant: the filter on the peer state is inverted
filtered_unknown(t) ==
    {p \in BagToSet(t.undone_peers) : p.state # "Resolved" /\ ~p.is_in_flight}

filtered(t) ==
    {p \in BagToSet(t.undone_peers) : p.state = "Resolved" /\ ~p.is_in_flight}

\* mutant: the peers that are not dependers come first inside one group
Before_dependers_last(l, r) ==
    \/ l.failed_queries < r.failed_queries
    \/ l.failed_queries = r.failed_queries /\ ~l.is_depender /\ r.is_depender

\* the sort key (failed_queries, !is_depender); the random third part
\* leaves the order inside one key open
Before(l, r) ==
    \/ l.failed_queries < r.failed_queries
    \/ l.failed_queries = r.failed_queries /\ l.is_depender /\ ~r.is_depender

First(peers) == {p \in peers : \A o \in peers : ~Before(o, p)}

\* download_one for the first `count` peers of the sorted vector
RECURSIVE take(_, _)
take(t, count) ==
    IF count = 0 \/ filtered(t) = {} \/ t.panic
    THEN {t}
    ELSE UNION {take(download_one(t, p), count - 1) : p \in First(filtered(t))}

download_random(t) ==
    {[d EXCEPT !.attempt = a] : d \in take(t, FanOut(t.attempt)), a \in wrapping_add(t.attempt)}

\* mutant: the peer stays in the map after a Defined answer
remove_keep(peers, status) ==
    Replace(peers, status, [status EXCEPT !.is_in_flight = FALSE])

\* undone_peers.remove(peer_id)
remove(peers, status) == peers (-) SetToBag({status})

RECURSIVE SumFailed(_, _)
SumFailed(peers, rest) ==
    IF rest = {} THEN 0
    ELSE LET p == CHOOSE x \in rest : TRUE
         IN  p.failed_queries * CopiesIn(p, peers) + SumFailed(peers, rest \ {p})

\* the failed queries the undone peers have in total
FailedQueries(t) == SumFailed(t.undone_peers, BagToSet(t.undone_peers))

\* mutant of verify: TryLater and Err make the peer unreliable
verify_penalty(t, status, response) ==
    IF response \in {"TryLater", "Err"}
    THEN LET retry == [status EXCEPT !.is_in_flight = FALSE,
                                     !.failed_queries = @ + 1]
         IN  [found |-> "none",
              task |-> IF status = Removed THEN [t EXCEPT !.panic = TRUE]
                       ELSE [t EXCEPT !.undone_peers = Replace(@, status, retry),
                                      !.unreliable_peers = saturating_add(@)]]
    ELSE LET t1 == [t EXCEPT !.undone_peers = remove(@, status),
                             !.orphans = @ + status.queries,
                             !.panic = @ \/ status = Removed \/ ~status.is_in_flight]
         IN  CASE response = "None" ->
                    [found |-> "none",
                     task |-> IF status.is_depender
                              THEN [t1 EXCEPT !.unreliable_peers = saturating_add(@),
                                              !.reliably_not_found = saturating_add(@)]
                              ELSE [t1 EXCEPT !.reliably_not_found = saturating_add(@)]]
               [] response \in {"WrongId", "BadSig"} ->
                    [found |-> "none",
                     task |-> [t1 EXCEPT !.unreliable_peers = saturating_add(@)]]
               [] response = "IllFormed" -> [found |-> "IllFormed", task |-> t1]
               [] OTHER -> [found |-> "Verified", task |-> t1]

\* mutant of verify: Defined(None) of a depender is counted as unreliable only
verify_depender_apart(t, status, response) ==
    IF response \in {"TryLater", "Err"}
    THEN LET retry == [status EXCEPT !.is_in_flight = FALSE,
                                     !.failed_queries = @ + 1]
         IN  [found |-> "none",
              task |-> IF status = Removed THEN [t EXCEPT !.panic = TRUE]
                       ELSE [t EXCEPT !.undone_peers = Replace(@, status, retry)]]
    ELSE LET t1 == [t EXCEPT !.undone_peers = remove(@, status),
                             !.orphans = @ + status.queries,
                             !.panic = @ \/ status = Removed \/ ~status.is_in_flight]
         IN  CASE response = "None" ->
                    [found |-> "none",
                     task |-> IF status.is_depender
                              THEN [t1 EXCEPT !.unreliable_peers = saturating_add(@)]
                              ELSE [t1 EXCEPT !.reliably_not_found = saturating_add(@)]]
               [] response \in {"WrongId", "BadSig"} ->
                    [found |-> "none",
                     task |-> [t1 EXCEPT !.unreliable_peers = saturating_add(@)]]
               [] response = "IllFormed" -> [found |-> "IllFormed", task |-> t1]
               [] OTHER -> [found |-> "Verified", task |-> t1]

\* [found, task]: found is "none" for None; `status` is the entry of the peer
\* whose query has completed, Removed when the map has none
verify(t, status, response) ==
    IF response \in {"TryLater", "Err"}
    THEN LET retry == [status EXCEPT !.is_in_flight = FALSE,
                                     !.failed_queries = @ + 1]
         IN  [found |-> "none",
              task |-> IF status = Removed THEN [t EXCEPT !.panic = TRUE]
                       ELSE [t EXCEPT !.undone_peers = Replace(@, status, retry)]]
    ELSE LET t1 == [t EXCEPT !.undone_peers = remove(@, status),
                             !.orphans = @ + status.queries,
                             !.panic = @ \/ status = Removed \/ ~status.is_in_flight]
         IN  CASE response = "None" ->
                    [found |-> "none",
                     task |-> IF status.is_depender
                              THEN [t1 EXCEPT !.unreliable_peers = saturating_add(@),
                                              !.reliably_not_found = saturating_add(@)]
                              ELSE [t1 EXCEPT !.reliably_not_found = saturating_add(@)]]
               [] response \in {"WrongId", "BadSig"} ->
                    [found |-> "none",
                     task |-> [t1 EXCEPT !.unreliable_peers = saturating_add(@)]]
               [] response = "IllFormed" -> [found |-> "IllFormed", task |-> t1]
               [] OTHER -> [found |-> "Verified", task |-> t1]

\* mutant: gives up one answer before the majority of others
shall_continue_early(t) ==
    IF t.reliably_not_found + 1 >= majority_of_others(t.peer_count)
    THEN {[continue |-> FALSE, task |-> t]}
    ELSE IF t.downloading = 0
         THEN {[continue |-> TRUE, task |-> d] : d \in download_random(t)}
         ELSE {[continue |-> TRUE, task |-> t]}

\* the set of [continue, task] the call may end in
shall_continue(t) ==
    IF t.reliably_not_found >= majority_of_others(t.peer_count)
    THEN {[continue |-> FALSE, task |-> t]}
    ELSE IF t.downloading = 0
         THEN {[continue |-> TRUE, task |-> d] : d \in download_random(t)}
         ELSE {[continue |-> TRUE, task |-> t]}

DlFrame == UNCHANGED <<locVars, limVars, engVars, setVars, pntVars, cfgVars, chnVars>>

IdleDl ==
    /\ task = NoTask
    /\ dres = "idle"
    /\ deniers = 0
    /\ senders = "held"
    /\ verified_broadcast = "pending"

\* what the task is after a step: it goes on, returns, or has panicked
Outcome(t, found) == IF t.panic THEN "panicked" ELSE found

\* on exit futures are dropped and receivers are cleaned: the counters stay
\* for meter_task
Dropped(t) ==
    [t EXCEPT !.undone_peers = EmptyBag, !.downloading = 0, !.attempt = 0, !.orphans = 0]

\* Downloader::run_task: the validators of the next round chained with the author
RunTask ==
    /\ dres = "idle"
    /\ \E chained \in BOOLEAN, author_state \in PeerStates :
         \E resolved \in 0..(NValidators - (IF chained THEN 0 ELSE 1)) :
           LET others == NValidators - (IF chained THEN 0 ELSE 1)
               author == Copies(PeerStatus(author_state, "any"), 1)
               rest == Copies(PeerStatus("Resolved", "any"), resolved)
                       (+) Copies(PeerStatus("Unknown", "any"), others - resolved)
           IN  task' = IF chained THEN DownloadTask(rest, author)
                       ELSE DownloadTask(rest (+) author, EmptyBag)
    /\ dres' = "running"
    /\ UNCHANGED <<deniers, senders, verified_broadcast>>
    /\ DlFrame

\* run_task where enough honest peers are Resolved and hold the point, and the
\* others never give a reliable answer
RunTaskHolders ==
    /\ dres = "idle"
    /\ \E chained \in BOOLEAN :
         LET total == NValidators + (IF chained THEN 1 ELSE 0)
             quorum == 2 * PeerCountF(NValidators) + 1
         IN  \E holders \in quorum..total :
               \E resolved \in 0..(total - holders) :
                 LET peers == Copies(PeerStatus("Resolved", "holder"), holders)
                              (+) Copies(PeerStatus("Resolved", "faulty"), resolved)
                              (+) Copies(PeerStatus("Unknown", "faulty"),
                                         total - holders - resolved)
                 IN  task' = [DownloadTask(peers, EmptyBag) EXCEPT !.peer_count = NValidators]
    /\ dres' = "running"
    /\ UNCHANGED <<deniers, senders, verified_broadcast>>
    /\ DlFrame

\* run_task with the author of the point told apart from the other peers
RunTaskAuthor ==
    /\ dres = "idle"
    /\ \E chained \in BOOLEAN, author_state \in PeerStates :
         \E resolved \in 0..(NValidators - (IF chained THEN 0 ELSE 1)) :
           LET others == NValidators - (IF chained THEN 0 ELSE 1)
               author == Copies(PeerStatus(author_state, "author"), 1)
               rest == Copies(PeerStatus("Resolved", "any"), resolved)
                       (+) Copies(PeerStatus("Unknown", "any"), others - resolved)
           IN  task' = IF chained THEN DownloadTask(rest, author)
                       ELSE DownloadTask(rest (+) author, EmptyBag)
    /\ dres' = "running"
    /\ UNCHANGED <<deniers, senders, verified_broadcast>>
    /\ DlFrame

\* the point came by a broadcast and was verified: the owner of the task
\* sends it into the oneshot channel
SendBroadcast ==
    /\ dres = "running"
    /\ senders = "held"
    /\ verified_broadcast = "pending"
    /\ verified_broadcast' = "sent"
    /\ UNCHANGED <<task, dres, deniers, senders>>
    /\ DlFrame

\* mutant: select! without `biased` may take any arm that is ready
Polled_unbiased(arm) == TRUE

\* select! { biased; ... }: the arms are polled in their order and the first
\* ready one is taken, so an arm is reached only when those before it are
\* pending; of the arms before, the model keeps the readiness of the first
Polled(arm) == arm = 1 \/ verified_broadcast # "sent"

\* select arm 1: Ok(point) = &mut verified_broadcast
VerifiedBroadcast ==
    /\ dres = "running"
    /\ Polled(1)
    /\ verified_broadcast = "sent"
    /\ verified_broadcast' = "taken"
    /\ dres' = "Verified"
    /\ task' = Dropped(task)
    /\ UNCHANGED <<deniers, senders>>
    /\ DlFrame

\* select arm 2: self.dependers.recv()
AddDepender(status) ==
    /\ dres = "running"
    /\ Polled(2)
    /\ senders = "held"
    /\ BagIn(status, task.undone_peers)
    /\ task' = add_depender(task, status)
    /\ dres' = Outcome(task', "running")
    /\ UNCHANGED <<deniers, senders, verified_broadcast>>
    /\ DlFrame

\* select arm 3: self.updates.recv()
PeerUpdate(status, new) ==
    /\ dres = "running"
    /\ Polled(3)
    /\ BagIn(status, task.undone_peers)
    /\ status.kind # "holder"
    /\ task' = match_peer_updates(task, status, new)
    /\ dres' = Outcome(task', "running")
    /\ UNCHANGED <<deniers, senders, verified_broadcast>>
    /\ DlFrame

\* the peers of the futures in `downloading`: the entries of the map that have
\* a query in flight and, if a query has outlived its entry, Removed
Queried(t) ==
    {p \in BagToSet(t.undone_peers) : p.queries > 0}
        \cup (IF t.orphans > 0 THEN {Removed} ELSE {})

\* select arm 4: self.downloading.next()
QueryDone(status, response) ==
    /\ dres = "running"
    /\ Polled(4)
    /\ status \in Queried(task)
    /\ response \in ResponsesOf(status.kind)
    /\ response \in {"TryLater", "Err"} => FailedQueries(task) < MaxFailed
    /\ LET asked == IF status = Removed THEN Removed
                    ELSE [status EXCEPT !.denied = @ \/ response = "None",
                                        !.queries = @ - 1]
           t0 == IF status = Removed
                 THEN [task EXCEPT !.orphans = @ - 1, !.downloading = @ - 1]
                 ELSE [task EXCEPT !.undone_peers = Replace(@, status, asked),
                                   !.downloading = @ - 1]
           v == verify(t0, asked, response)
       IN  /\ IF v.found # "none"
              THEN /\ task' = Dropped(v.task)
                   /\ dres' = Outcome(task', v.found)
              ELSE \E c \in shall_continue(v.task) :
                     /\ task' = IF c.continue THEN c.task ELSE Dropped(c.task)
                     /\ dres' = Outcome(task', IF c.continue THEN "running" ELSE "NotFound")
           /\ deniers' = IF response = "None" /\ ~status.denied THEN deniers + 1 ELSE deniers
    /\ UNCHANGED <<senders, verified_broadcast>>
    /\ DlFrame

\* mutant: the senders are dropped and the task is left to run
DropFuture_detached ==
    /\ dres = "running"
    /\ senders = "held"
    /\ senders' = "dropped"
    /\ UNCHANGED <<task, dres, deniers, verified_broadcast>>
    /\ DlFrame

\* the last clone of the DagPointFuture that owns the task is dropped: both
\* senders go with it and the task is aborted at the await of its select
DropFuture ==
    /\ dres = "running"
    /\ senders = "held"
    /\ senders' = "dropped"
    /\ task' = Dropped(task)
    /\ dres' = "aborted"
    /\ UNCHANGED <<deniers, verified_broadcast>>
    /\ DlFrame

\* select arm 5: self.interval.tick()
Tick ==
    /\ dres = "running"
    /\ Polled(5)
    /\ \E d \in download_random(task) :
         /\ task' = d
         /\ dres' = Outcome(d, "running")
    /\ UNCHANGED <<deniers, senders, verified_broadcast>>
    /\ DlFrame

Statuses == BagToSet(task.undone_peers)

NextDl ==
    \/ RunTask
    \/ SendBroadcast
    \/ VerifiedBroadcast
    \/ DropFuture
    \/ \E status \in Statuses : AddDepender(status)
    \/ \E status \in Statuses, new \in PeerStates : PeerUpdate(status, new)
    \/ \E status \in Queried(task), response \in Responses : QueryDone(status, response)
    \/ Tick

NextDlHolders ==
    \/ RunTaskHolders
    \/ SendBroadcast
    \/ VerifiedBroadcast
    \/ \E status \in Statuses : AddDepender(status)
    \/ \E status \in Statuses, new \in PeerStates : PeerUpdate(status, new)
    \/ \E status \in Queried(task), response \in Responses : QueryDone(status, response)
    \/ Tick

NextDlAuthor ==
    \/ RunTaskAuthor
    \/ SendBroadcast
    \/ VerifiedBroadcast
    \/ DropFuture
    \/ \E status \in Statuses : AddDepender(status)
    \/ \E status \in Statuses, new \in PeerStates : PeerUpdate(status, new)
    \/ \E status \in Queried(task), response \in Responses : QueryDone(status, response)
    \/ Tick

\* the entries a task may hold between two polls of its loop: a depender that
\* is Resolved and has not failed has been queried at once
MidStatuses ==
    {status \in
        {[PeerStatus(peer_state, "any") EXCEPT !.failed_queries = failed,
                                               !.is_depender = depender,
                                               !.is_in_flight = in_flight,
                                               !.queries = IF in_flight THEN 1 ELSE 0] :
            peer_state \in PeerStates, failed \in 0..MaxFailed,
            depender \in BOOLEAN, in_flight \in BOOLEAN} :
        ~(/\ status.is_depender
          /\ status.state = "Resolved"
          /\ status.failed_queries = 0
          /\ ~status.is_in_flight)}

\* a task in the middle of its run, entry by entry: the validators of the
\* next round, the author among them
Arrange(status) ==
    /\ dres = "idle"
    /\ BagCardinality(task.undone_peers) < NValidators
    /\ task' = [task EXCEPT !.peer_count = NValidators,
                            !.undone_peers = @ (+) SetToBag({status}),
                            !.downloading = @ + status.queries]
    /\ UNCHANGED <<dres, deniers, senders, verified_broadcast>>
    /\ DlFrame

\* the loop of that task is polled again, after `attempt` fan-outs
Resume(attempt) ==
    /\ dres = "idle"
    /\ BagCardinality(task.undone_peers) = NValidators
    /\ task' = [task EXCEPT !.attempt = attempt]
    /\ dres' = "running"
    /\ UNCHANGED <<deniers, senders, verified_broadcast>>
    /\ DlFrame

\* the fan-outs of a task in the middle of its run
NextFan ==
    \/ \E status \in MidStatuses : Arrange(status)
    \/ \E attempt \in 0..AttemptCap : Resume(attempt)
    \/ Tick

\* the queries to holders that may be in flight
HolderQueries ==
    {[PeerStatus("Resolved", "holder") EXCEPT !.is_in_flight = TRUE, !.queries = 1,
                                              !.is_depender = d] :
        d \in BOOLEAN}

\* the task is polled when a broadcast is sent, interval ticks fire and the
\* queries to holders complete
FairDl ==
    /\ WF_vars(VerifiedBroadcast)
    /\ WF_vars(Tick)
    /\ \A status \in HolderQueries : WF_vars(QueryDone(status, "Ok"))

(***************************************************************************)
(* Engine: pre_run, the loop of run and the commit task                    *)
(***************************************************************************)
\* rounds of history that stay above the bottom of the DAG
HistoryRounds == 2

Rounds == 1..MaxRound

Max(a, b) == IF a >= b THEN a ELSE b

\* Consensus::history_bottom
history_bottom(round) == Max(round - HistoryRounds, 0)

\* Committer::default(): no rounds, nothing committed
Committer == [top |-> 0, bottom |-> 0, last |-> 0]

\* mutant of set_bottom: a gap is never told
set_bottom_silent(c, bottom_round) ==
    [ok |-> TRUE, committer |-> [c EXCEPT !.bottom = Max(@, bottom_round)]]

\* Committer::set_bottom: [ok, committer]; not ok when the new bottom is
\* above every round the committer has
set_bottom(c, bottom_round) ==
    [ok |-> bottom_round <= c.top,
     committer |-> [c EXCEPT !.bottom = Max(@, bottom_round)]]

\* Committer::extend_from_ahead
extend_from_ahead(c, top_round) == [c EXCEPT !.top = Max(@, top_round)]

RECURSIVE Ascending(_)
Ascending(S) ==
    IF S = {} THEN <<>> ELSE <<SetMin(S)>> \o Ascending(S \ {SetMin(S)})

\* Committer::commit: some anchors above the committed frontier and not below
\* the bottom, in round order; the set of [committed, committer]
commit(c) ==
    {[committed |-> Ascending(A),
      committer |-> IF A = {} THEN c ELSE [c EXCEPT !.last = SetMax(A)]] :
        A \in SUBSET {r \in Rounds : r > c.last /\ r >= c.bottom /\ r <= c.top}}

Finished(c) == [st |-> "finished", committer |-> c]
Spawned(c, bottom_round, top_round) ==
    [st |-> "spawned", committer |-> c, bottom_round |-> bottom_round, top_round |-> top_round]
Sending(c, committed) == [st |-> "sending", committer |-> c, committed |-> committed]
\* the task pre_run spawns to make the first Committer over the rounds of buf
Initial(top_round) == [st |-> "init", top_round |-> top_round]
\* a commit task that ended with a JoinError: a panic or a cancellation
Failed(how) == [st |-> "failed", how |-> how]
JoinErrors == {"panic", "cancelled"}

NewStartAfterGap(round) == [res |-> "NewStartAfterGap", round |-> round, task |-> spawned]
NextAnchor(round) == [res |-> "Next", round |-> round, task |-> spawned]

\* mutant of is_finished: a failed task is never seen as finished
is_finished_ok(run) == run.st = "finished"

\* self.committer_run.is_finished(): the task has returned or has failed
is_finished(run) == run.st \in {"finished", "failed"}

\* what the engine does with a JoinError: resume_unwind for a panic, a panic
\* of its own otherwise
Raised(how) == IF how = "panic" THEN "resume_unwind" ELSE "panic"

\* mutant: the loop over `committed` takes the newest anchor first
data_newest(committed) == committed[Len(committed)]

\* `for data in committed`: the next anchor to send
data(committed) == Head(committed)

\* Genesis::round(); Round(0) is the stub below every round, and a store may
\* hold rounds of an older genesis
GenesisRound == 2

\* mutant of set_max: the watch takes the value whatever it held
set_max_plain(current, round) == round

\* RoundWatch::set_max
set_max(current, round) == Max(current, round)

\* Round::prev
prev(round) == round - 1

\* mutant of next: the round itself
next_same(round) == round

\* Round::next
next(round) == round + 1

\* DagFront::fill_to_top: the front is extended up to and including round
fill_to_top(top, round) == Max(top, round)

\* the round RoundTaskReady::run gives back: the collector has gathered the
\* includes of the current round, the next dag round is the round to go on at
next_round_of(next_dag_round) == next_dag_round

\* the store pre_run reads: latest_round, the rounds that have points, the
\* rounds that have a point authored by the local key, and whether the peer
\* schedule has a local key for last_round or the round before
NoStore == [last_round |-> 0, rounds |-> {}, own |-> {}, local_id |-> FALSE]
Stores ==
    {[last_round |-> l, rounds |-> rs \cup {l}, own |-> o, local_id |-> k] :
        l \in GenesisRound..MaxRound, rs \in SUBSET Rounds,
        o \in SUBSET Rounds, k \in BOOLEAN}
\* latest_round is the latest round stored; the points of the local key are
\* points of the current genesis
StoresOk ==
    {s \in Stores : /\ \A r \in s.rounds : r <= s.last_round
                    /\ s.own \subseteq s.rounds
                    /\ \A r \in s.own : r >= GenesisRound}

\* the rounds DagFront::fill_to_top gives back: the rounds it added to the
\* front, in ascending order
filled(top, round) == [i \in 1..Max(round - top, 0) |-> top + i]

\* DagFront::as_slice: the rounds of the front from its bottom to its top
as_slice(bottom, top) == [i \in 1..Max(top - bottom + 1, 0) |-> bottom + i - 1]

\* mutant of append: the rounds buffered before are dropped
append_over(buffer, rounds) == rounds

\* Vec::append
append(buffer, rounds) == buffer \o rounds

\* Vec::extend_from_slice
extend_from_slice(buffer, slice) == buffer \o slice

\* rounds_buffer after the two appends at the head of the loop: the rounds
\* of the jump to the consensus round, then the round after it
buffered(buffer, top, round) ==
    LET after_jump ==
            IF round # top
            THEN append(buffer, filled(top, round))
            ELSE buffer
        current_dag_round == fill_to_top(top, round)
    IN  append(after_jump, filled(current_dag_round, next(current_dag_round)))

\* first_round of pre_run
first_round(s) == Max(GenesisRound, Max(s.last_round - 2, 0))

\* MempoolStore::load_rounds(first_round, last_round): the rounds of the infos
load_rounds(s, first, last) == {r \in s.rounds : first <= r /\ r <= last}

\* mutant of start_info: only an own point of last_round is taken
start_info_last(s) ==
    IF s.local_id /\ s.last_round \in s.own THEN s.last_round ELSE 0

\* start_info of pre_run: the round of the latest own point among the infos,
\* not below last_round.prev(); 0 for None
start_info(s) ==
    LET maybe_unfinished_round == prev(s.last_round)
        own == {r \in load_rounds(s, first_round(s), s.last_round) :
                    r \in s.own /\ r >= maybe_unfinished_round}
    IN  IF s.local_id /\ own # {} THEN SetMax(own) ELSE 0

start_round(s) == IF start_info(s) = 0 THEN s.last_round ELSE start_info(s)

\* mutant of restore: every loaded info is restored
restore_all(s) == load_rounds(s, first_round(s), s.last_round)

\* the rounds whose infos the loop of pre_run hands to restore_exact
restore(s) ==
    {r \in load_rounds(s, first_round(s), s.last_round) : r <= start_round(s)}

NoPoint == [at |-> 0, round |-> 0, how |-> "none"]

EngFrame == UNCHANGED <<locVars, limVars, dlVars, setVars, pntVars, cfgVars, chnVars>>

\* Engine::new: the watches hold their default, the DAG is empty
IdleEng ==
    /\ consensus_round = 0
    /\ epc = "pre_run"
    /\ committer_run = Initial(0)
    /\ committed_info = <<>>
    /\ spawned = 0
    /\ dag_top = 0
    /\ failure = "none"
    /\ published = 0
    /\ store = NoStore
    /\ restored = {}
    /\ start_point = 0
    /\ own_point = NoPoint
    /\ rounds_buffer = <<>>
    /\ moved_rounds_buf = <<>>

\* Engine::pre_run over the store s
PreRun(s) ==
    /\ epc = "pre_run"
    /\ store' = s
    /\ dag_top' = fill_to_top(history_bottom(s.last_round), start_round(s))
    /\ committer_run' = Initial(dag_top')
    /\ restored' = restore(s)
    /\ IF \E r \in restore(s) : r < history_bottom(s.last_round)
       THEN /\ failure' = "panic"
            /\ epc' = "stopped"
            /\ UNCHANGED <<consensus_round, start_point>>
       ELSE /\ start_point' = start_info(s)
            /\ consensus_round' = set_max(consensus_round, start_round(s))
            /\ epc' = "loop"
            /\ UNCHANGED failure
    /\ UNCHANGED <<committed_info, spawned, published, own_point,
                   rounds_buffer, moved_rounds_buf>>
    /\ EngFrame

\* the head of the loop up to the await of the round task: the assertion, the
\* DAG filled to the round after the current one, the own point replayed or
\* produced, and the commit task spawned again only if the last one is
\* finished
Iterate ==
    /\ epc = "loop"
    /\ consensus_round < MaxRound
    /\ IF consensus_round < dag_top
       THEN /\ failure' = "assert"
            /\ epc' = "stopped"
            /\ UNCHANGED <<committer_run, spawned, dag_top, start_point, own_point,
                           rounds_buffer, moved_rounds_buf>>
       ELSE /\ LET current_dag_round == fill_to_top(dag_top, consensus_round)
               IN  /\ dag_top' = fill_to_top(current_dag_round, next(current_dag_round))
                   /\ own_point' =
                        IF start_point # 0
                        THEN [at |-> current_dag_round, round |-> start_point,
                              how |-> "replayed"]
                        ELSE [at |-> current_dag_round, round |-> current_dag_round,
                              how |-> "produced"]
            /\ start_point' = 0
            /\ IF ~is_finished(committer_run)
               THEN /\ epc' = "await"
                    /\ rounds_buffer' = buffered(rounds_buffer, dag_top, consensus_round)
                    /\ UNCHANGED <<committer_run, spawned, failure, moved_rounds_buf>>
               ELSE IF committer_run.st = "failed"
               THEN /\ failure' = Raised(committer_run.how)
                    /\ epc' = "stopped"
                    /\ rounds_buffer' = buffered(rounds_buffer, dag_top, consensus_round)
                    /\ UNCHANGED <<committer_run, spawned, moved_rounds_buf>>
               ELSE /\ \E top_known_bottom \in 0..consensus_round :
                          committer_run' =
                            Spawned(committer_run.committer,
                                    Max(top_known_bottom, history_bottom(consensus_round)),
                                    consensus_round + 1)
                    /\ moved_rounds_buf' =
                         extend_from_slice(
                            buffered(rounds_buffer, dag_top, consensus_round),
                            as_slice(history_bottom(store.last_round),
                                     next(fill_to_top(dag_top, consensus_round))))
                    /\ rounds_buffer' = <<>>
                    /\ spawned' = spawned + 1
                    /\ epc' = "await"
                    /\ UNCHANGED failure
    /\ UNCHANGED <<consensus_round, committed_info, published, store, restored>>
    /\ EngFrame

\* round_task_run is ready: consensus_round.set_max(next_round)
RoundReady ==
    /\ epc = "await"
    /\ published' = next_round_of(dag_top)
    /\ consensus_round' = set_max(consensus_round, published')
    /\ epc' = "loop"
    /\ UNCHANGED <<committer_run, committed_info, spawned, dag_top, failure,
                   store, restored, start_point, own_point,
                   rounds_buffer, moved_rounds_buf>>
    /\ EngFrame

\* round_task_run ends with a JoinError
RoundFailed(how) ==
    /\ epc = "await"
    /\ failure' = Raised(how)
    /\ epc' = "stopped"
    /\ UNCHANGED <<consensus_round, committer_run, committed_info, spawned, dag_top,
                   published, store, restored, start_point, own_point,
                   rounds_buffer, moved_rounds_buf>>
    /\ EngFrame

\* another holder of the watch (the broadcast filter, the collector) moves
\* the consensus round
SetMaxElsewhere(round) ==
    /\ consensus_round < round
    /\ consensus_round' = set_max(consensus_round, round)
    /\ UNCHANGED <<epc, committer_run, committed_info, spawned, dag_top, failure,
                   published, store, restored, start_point, own_point,
                   rounds_buffer, moved_rounds_buf>>
    /\ EngFrame

\* the task of pre_run returns the first Committer: the rounds of buf, the
\* bottom set (what set_bottom returns is dropped here)
CommitterInit ==
    /\ committer_run.st = "init"
    /\ epc # "pre_run"
    /\ consensus_round > 0
    /\ \E top_known_bottom \in 0..consensus_round :
         committer_run' =
            Finished(set_bottom(extend_from_ahead(Committer, committer_run.top_round),
                                Max(top_known_bottom, history_bottom(consensus_round))
                               ).committer)
    /\ UNCHANGED <<consensus_round, epc, committed_info, spawned, dag_top, failure,
                   published, store, restored, start_point, own_point,
                   rounds_buffer, moved_rounds_buf>>
    /\ EngFrame

\* the commit task up to the loop over `committed`
CommitterCommit ==
    /\ committer_run.st = "spawned"
    /\ LET set == set_bottom(committer_run.committer, committer_run.bottom_round)
           extended == extend_from_ahead(set.committer, committer_run.top_round)
       IN  /\ committed_info' =
                 IF set.ok THEN committed_info
                 ELSE Append(committed_info, NewStartAfterGap(committer_run.bottom_round))
           /\ \E got \in commit(extended) :
                committer_run' = Sending(got.committer, got.committed)
    /\ moved_rounds_buf' = <<>>
    /\ UNCHANGED <<consensus_round, epc, spawned, dag_top, failure,
                   published, store, restored, start_point, own_point,
                   rounds_buffer>>
    /\ EngFrame

\* one turn of the loop over `committed`
CommitterSend ==
    /\ committer_run.st = "sending"
    /\ committer_run.committed # <<>>
    /\ committed_info' = Append(committed_info, NextAnchor(data(committer_run.committed)))
    /\ committer_run' = [committer_run EXCEPT !.committed = Tail(@)]
    /\ UNCHANGED <<consensus_round, epc, spawned, dag_top, failure,
                   published, store, restored, start_point, own_point,
                   rounds_buffer, moved_rounds_buf>>
    /\ EngFrame

\* the task returns the committer
CommitterReturn ==
    /\ committer_run.st = "sending"
    /\ committer_run.committed = <<>>
    /\ committer_run' = Finished(committer_run.committer)
    /\ UNCHANGED <<consensus_round, epc, committed_info, spawned, dag_top, failure,
                   published, store, restored, start_point, own_point,
                   rounds_buffer, moved_rounds_buf>>
    /\ EngFrame

\* the commit task panics (a failed send, a panic of the committer) or is
\* cancelled
CommitterFails(how) ==
    /\ committer_run.st \in {"spawned", "sending"}
    /\ committer_run' = Failed(how)
    /\ moved_rounds_buf' = <<>>
    /\ UNCHANGED <<consensus_round, epc, committed_info, spawned, dag_top, failure,
                   published, store, restored, start_point, own_point,
                   rounds_buffer>>
    /\ EngFrame

\* the store of a node that starts for the first time: the genesis round
FreshStore ==
    [last_round |-> GenesisRound, rounds |-> {GenesisRound}, own |-> {},
     local_id |-> TRUE]

\* pre_run at the first start of the node
StartFresh == PreRun(FreshStore)

\* a first start, the loop and the commit task
NextEng ==
    \/ StartFresh
    \/ Iterate
    \/ RoundReady
    \/ \E how \in JoinErrors : RoundFailed(how)
    \/ \E round \in Rounds : SetMaxElsewhere(round)
    \/ CommitterInit
    \/ CommitterCommit
    \/ CommitterSend
    \/ CommitterReturn
    \/ \E how \in JoinErrors : CommitterFails(how)

\* a restart over any store and the rounds of the loop after it
NextRestart ==
    \/ \E s \in StoresOk : PreRun(s)
    \/ Iterate
    \/ RoundReady
    \/ \E round \in Rounds : SetMaxElsewhere(round)

(***************************************************************************)
(* A validator set at the location of one anchor candidate                 *)
(***************************************************************************)
Nodes == 1..NValidators

\* the author of the anchor candidate of round LocRound
Leader == 1

SetF == PeerCountF(NValidators)

\* the version has the signatures of 2F validators other than its author;
\* a Byzantine validator signs whatever it is asked to
Certified(digest) ==
    Cardinality({n \in Nodes \ {Leader} : n \in faulty \/ <<n, digest>> \in sigs}) >= 2 * SetF

SetFrame == UNCHANGED <<locVars, limVars, dlVars, engVars, pntVars, cfgVars, chnVars>>

IdleSet ==
    /\ faulty = {}
    /\ produced = {}
    /\ incl = [n \in Nodes |-> Empty]
    /\ sigs = {}
    /\ anchors = [n \in Nodes |-> 0]

\* up to F validators are Byzantine from the start
Corrupt(n) ==
    /\ n \notin faulty
    /\ Cardinality(faulty) < SetF
    /\ produced = {} /\ sigs = {}
    /\ \A m \in Nodes : incl[m] = Empty /\ anchors[m] = 0
    /\ faulty' = faulty \cup {n}
    /\ UNCHANGED <<produced, incl, sigs, anchors>>
    /\ SetFrame

\* an honest leader makes one point: DagLocation::insert_own_point
Produce(digest) ==
    /\ Leader \notin faulty
    /\ produced = {}
    /\ incl[Leader] = Empty
    /\ produced' = {digest}
    /\ incl' = [incl EXCEPT ![Leader] =
                   Signable(DagPoint("Trusted", digest, 0),
                            OkSigned(LocRound, "local", digest))]
    /\ UNCHANGED <<faulty, sigs, anchors>>
    /\ SetFrame

\* a Byzantine leader makes as many versions as it likes
Equivocate(digest) ==
    /\ Leader \in faulty
    /\ digest \notin produced
    /\ produced' = produced \cup {digest}
    /\ UNCHANGED <<faulty, incl, sigs, anchors>>
    /\ SetFrame

\* the validation of a version completes at an honest validator:
\* the inspect hook of add_validate calls InclusionState::init
Validated(n, digest, kind) ==
    /\ n \notin faulty /\ n # Leader
    /\ digest \in produced
    /\ incl' = [incl EXCEPT ![n] = init(@, DagPoint(kind, digest, 0))]
    /\ UNCHANGED <<faulty, produced, sigs, anchors>>
    /\ SetFrame

\* an honest validator is asked for its signature: Signable::sign
Signs(n, start) ==
    /\ n \notin faulty /\ n # Leader
    /\ incl[n].init
    /\ incl' = [incl EXCEPT ![n] = sign(@, LocRound + 1, TRUE, start, MaxTime)]
    /\ sigs' = IF this_call_signed(incl[n], LocRound + 1, TRUE, start, MaxTime)
               THEN sigs \cup {<<n, incl[n].first_completed.digest>>}
               ELSE sigs
    /\ UNCHANGED <<faulty, produced, anchors>>
    /\ SetFrame

\* Committer::commit at an honest validator: the anchor of the round is a
\* certified point of the leader
CommitAnchor(n, digest) ==
    /\ n \notin faulty
    /\ anchors[n] = 0
    /\ digest \in produced
    /\ Certified(digest)
    /\ anchors' = [anchors EXCEPT ![n] = digest]
    /\ UNCHANGED <<faulty, produced, incl, sigs>>
    /\ SetFrame

NextSet ==
    \/ \E n \in Nodes : Corrupt(n)
    \/ \E digest \in Digests : Produce(digest)
    \/ \E digest \in Digests : Equivocate(digest)
    \/ \E n \in Nodes, digest \in Digests, kind \in {"Trusted", "Invalid"} :
         Validated(n, digest, kind)
    \/ \E n \in Nodes, start \in Times : Signs(n, start)
    \/ \E n \in Nodes, digest \in Digests : CommitAnchor(n, digest)

(***************************************************************************)
(* Point: new, is_integrity_ok, is_well_formed                             *)
(***************************************************************************)
\* the peers: the author of the genesis point and a validator
PeerIds == {"genesis", "a"}

\* KeyPair: the public key is derived from the secret key
KeyPair(secret) == [secret_key |-> secret, public_key |-> <<"public", secret>>]

KeyPairs == {KeyPair(secret) : secret \in PeerIds}

\* PeerId::from(public_key): the bytes of the key
PeerId_from(public_key) == public_key[2]

\* rounds around the genesis round
PointRounds == (GenesisRound - 1)..(GenesisRound + 2)

PointTimes == 0..1

\* digests of the points of other rounds that a body names
NamedDigests == {"d1", "d2"}

NoProof == [digest |-> "none", evidence |-> {}]

\* Option<PrevPoint>: evidence is kept as its key set
Proofs == {NoProof} \cup {[digest |-> "d1", evidence |-> e] : e \in SUBSET PeerIds}

\* BTreeMap<PeerId, Digest>; "none" where the map has no entry
IncludesMaps == [PeerIds -> NamedDigests \cup {"none"}]

WitnessMaps == [PeerIds -> {"d1", "none"}]

contains_key(map, peer) == map[peer] # "none"

is_empty(map) == \A peer \in PeerIds : map[peer] = "none"

ToSelf == [link |-> "ToSelf", through |-> "none", peer |-> "none", to |-> 0]

\* Link: ToSelf, Direct(Through) and Indirect {to, path}; of `to` the round
Links ==
    {ToSelf}
    \cup {[link |-> "Direct", through |-> t, peer |-> "a", to |-> 0] :
            t \in {"Includes", "Witness"}}
    \cup {[link |-> "Indirect", through |-> t, peer |-> "a", to |-> r] :
            t \in {"Includes", "Witness"}, r \in {GenesisRound, GenesisRound + 1}}

\* PointBody
Bodies ==
    [round : PointRounds, author : PeerIds, time : PointTimes, anchor_time : PointTimes,
     payload : {<<>>, <<"bytes">>}, proof : Proofs, includes : IncludesMaps,
     witness : WitnessMaps, anchor_trigger : Links, anchor_proof : Links]

\* the bodies that link to nothing
PlainBodies ==
    {b \in [round : PointRounds, author : PeerIds, time : PointTimes,
             anchor_time : PointTimes, payload : {<<>>, <<"bytes">>}, proof : {NoProof},
             includes : {[peer \in PeerIds |-> "none"]},
             witness : {[peer \in PeerIds |-> "none"]},
             anchor_trigger : {ToSelf}, anchor_proof : {ToSelf}] : TRUE}

\* Digest::new: Sha256 of the serialized body, taken as collision-free
Digest_new(body) == [sha256 |-> body]

\* Signature::new: 64 bytes new_point with the secret key over the digest
Signature_new(key_pair, digest) ==
    [bytes |-> 64, secret_key |-> key_pair.secret_key, over |-> digest]

\* a signature cut short of its 64 bytes
Truncated(signature) == [signature EXCEPT !.bytes = 63]

\* Signature::verifies
verifies(signature, signer, digest) ==
    /\ signature.bytes = 64
    /\ PeerId_from(KeyPair(signature.secret_key).public_key) = signer
    /\ signature.over = digest

NoPt == [body |-> "none", digest |-> "none", signature |-> "none"]

\* Point::new past its assert_eq
Point_new(key_pair, point_body) ==
    LET digest == Digest_new(point_body)
    IN  [body |-> point_body, digest |-> digest,
         signature |-> Signature_new(key_pair, digest)]

\* mutant of is_integrity_ok: the digest is not compared with the body
is_integrity_ok_signature(p) ==
    verifies(p.signature, p.body.author, p.digest)

\* Point::is_integrity_ok
is_integrity_ok(p) ==
    /\ verifies(p.signature, p.body.author, p.digest)
    /\ p.digest = Digest_new(p.body)

\* Point::is_link_well_formed
is_link_well_formed(body, field) ==
    LET l == body[field]
    IN  CASE l.link = "ToSelf" -> TRUE
          [] l.link = "Direct" /\ l.through = "Includes" ->
                contains_key(body.includes, l.peer)
          [] l.link = "Direct" /\ l.through = "Witness" ->
                contains_key(body.witness, l.peer)
          [] l.link = "Indirect" /\ l.through = "Includes" ->
                contains_key(body.includes, l.peer) /\ next(l.to) < body.round
          [] OTHER ->
                contains_key(body.witness, l.peer) /\ next(next(l.to)) < body.round

\* Point::anchor_round
anchor_round(body, field) ==
    LET l == body[field]
    IN  CASE l.link = "ToSelf" -> body.round
          [] l.link = "Direct" /\ l.through = "Includes" -> prev(body.round)
          [] l.link = "Direct" /\ l.through = "Witness" -> prev(prev(body.round))
          [] OTHER -> l.to

\* mutant of is_special_ok: a point of the genesis round may carry a payload
is_special_ok_payload(body) ==
    IF body.round = GenesisRound
    THEN /\ is_empty(body.includes)
         /\ is_empty(body.witness)
         /\ body.proof = NoProof
         /\ body.anchor_proof = ToSelf
         /\ body.anchor_trigger = ToSelf
    ELSE IF body.round > GenesisRound
    THEN /\ (body.round > next(GenesisRound) \/ is_empty(body.witness))
         /\ ~(body.anchor_proof = ToSelf /\ body.proof = NoProof)
         /\ ~(body.anchor_trigger = ToSelf /\ body.proof = NoProof)
    ELSE FALSE

\* the match on the round in is_well_formed
is_special_ok(body) ==
    IF body.round = GenesisRound
    THEN /\ is_empty(body.includes)
         /\ is_empty(body.witness)
         /\ body.payload = <<>>
         /\ body.proof = NoProof
         /\ body.anchor_proof = ToSelf
         /\ body.anchor_trigger = ToSelf
    ELSE IF body.round > GenesisRound
    THEN /\ (body.round > next(GenesisRound) \/ is_empty(body.witness))
         /\ ~(body.anchor_proof = ToSelf /\ body.proof = NoProof)
         /\ ~(body.anchor_trigger = ToSelf /\ body.proof = NoProof)
    ELSE FALSE

\* the match on the two anchor rounds in is_well_formed
is_anchor_rounds_ok(x, y) ==
    IF y = GenesisRound THEN x >= GenesisRound
    ELSE IF x = GenesisRound THEN y >= GenesisRound
    ELSE x # y /\ x > GenesisRound /\ y > GenesisRound

\* mutant of is_well_formed: the proof is not looked up in includes
is_well_formed_unlisted(body) ==
    /\ body.time >= body.anchor_time
    /\ is_special_ok(body)
    /\ body.proof # NoProof => ~(body.author \in body.proof.evidence)
    /\ is_link_well_formed(body, "anchor_proof")
    /\ is_link_well_formed(body, "anchor_trigger")
    /\ is_anchor_rounds_ok(anchor_round(body, "anchor_proof"),
                           anchor_round(body, "anchor_trigger"))

\* Point::is_well_formed
is_well_formed(body) ==
    /\ body.time >= body.anchor_time
    /\ is_special_ok(body)
    /\ body.proof.digest = body.includes[body.author]
    /\ body.proof # NoProof => ~(body.author \in body.proof.evidence)
    /\ is_link_well_formed(body, "anchor_proof")
    /\ is_link_well_formed(body, "anchor_trigger")
    /\ is_anchor_rounds_ok(anchor_round(body, "anchor_proof"),
                           anchor_round(body, "anchor_trigger"))

\* Round is a u32; the model keeps RoundBits of its width
RoundBits == 4

\* u32::MAX of the rounds of the model
RoundMax == 2 ^ RoundBits - 1

\* Round::next panics: checked_add(1) is None
next_overflows(round) == round = RoundMax

\* Round::prev panics: checked_sub(1) is None
prev_underflows(round) == round = 0

\* is_link_well_formed panics: the next() of an Indirect link is reached only
\* when the map holds the peer of the path
is_link_well_formed_panics(body, field) ==
    LET l == body[field]
    IN  CASE l.link = "Indirect" /\ l.through = "Includes" ->
                contains_key(body.includes, l.peer) /\ next_overflows(l.to)
          [] l.link = "Indirect" /\ l.through = "Witness" ->
                /\ contains_key(body.witness, l.peer)
                /\ next_overflows(l.to) \/ next_overflows(next(l.to))
          [] OTHER -> FALSE

\* anchor_round panics
anchor_round_panics(body, field) ==
    LET l == body[field]
    IN  CASE l.link = "Direct" /\ l.through = "Includes" -> prev_underflows(body.round)
          [] l.link = "Direct" /\ l.through = "Witness" ->
                prev_underflows(body.round) \/ prev_underflows(prev(body.round))
          [] OTHER -> FALSE

\* is_well_formed panics: the chain of && is evaluated from the left and
\* stops at the first false
is_well_formed_panics(body) ==
    /\ body.time >= body.anchor_time
    /\ is_special_ok(body)
    /\ body.proof.digest = body.includes[body.author]
    /\ body.proof # NoProof => ~(body.author \in body.proof.evidence)
    /\ \/ is_link_well_formed_panics(body, "anchor_proof")
       \/ /\ ~is_link_well_formed_panics(body, "anchor_proof")
          /\ is_link_well_formed(body, "anchor_proof")
          /\ \/ is_link_well_formed_panics(body, "anchor_trigger")
             \/ /\ ~is_link_well_formed_panics(body, "anchor_trigger")
                /\ is_link_well_formed(body, "anchor_trigger")
                /\ \/ anchor_round_panics(body, "anchor_proof")
                   \/ anchor_round_panics(body, "anchor_trigger")

\* Link with a target round up to the greatest one
WideLinks ==
    Links \cup {[link |-> "Indirect", through |-> t, peer |-> "a", to |-> r] :
                    t \in {"Includes", "Witness"}, r \in {RoundMax - 1, RoundMax}}

\* the bodies a peer may send: a point of any round, the greatest one too,
\* with anchor links to any round
WideBodies ==
    [round : PointRounds \cup {0, RoundMax}, author : {"a"}, time : {1},
     anchor_time : PointTimes, payload : {<<>>},
     proof : {NoProof, [digest |-> "d1", evidence |-> {}]},
     includes : IncludesMaps, witness : WitnessMaps,
     anchor_trigger : WideLinks, anchor_proof : WideLinks]

\* genesis_millis of the configuration
GenesisMillis == CHOOSE time \in PointTimes : time > 0

\* the genesis point CachedConfig::init makes
GenesisBody ==
    [round |-> GenesisRound, author |-> "genesis",
     time |-> GenesisMillis, anchor_time |-> GenesisMillis,
     payload |-> <<>>, proof |-> NoProof,
     includes |-> [peer \in PeerIds |-> "none"],
     witness |-> [peer \in PeerIds |-> "none"],
     anchor_trigger |-> ToSelf, anchor_proof |-> ToSelf]

PntFrame == UNCHANGED <<locVars, limVars, dlVars, engVars, setVars, cfgVars, chnVars>>

IdlePnt ==
    /\ cur_point = NoPt
    /\ new_point = NoPt
    /\ ppc = "none"
    /\ well_formed = "none"

\* Point::new(local_keypair, point_body)
PointNew(key_pair, point_body) ==
    /\ ppc = "none"
    /\ IF point_body.author # PeerId_from(key_pair.public_key)
       THEN /\ ppc' = "panicked"
            /\ UNCHANGED <<cur_point, new_point>>
       ELSE /\ cur_point' = Point_new(key_pair, point_body)
            /\ new_point' = cur_point'
            /\ ppc' = "new"
    /\ UNCHANGED well_formed
    /\ PntFrame

\* the digests and signatures a changed point may carry
SomeDigests == {Digest_new(body) : body \in PlainBodies}

SomeSignatures ==
    LET whole == {Signature_new(key_pair, digest) :
                    key_pair \in KeyPairs, digest \in SomeDigests}
    IN  whole \cup {Truncated(signature) : signature \in whole}

\* a point is received with one field other than Point::new new_point it
ChangeBody(point_body) ==
    /\ ppc = "new"
    /\ point_body # cur_point.body
    /\ cur_point' = [cur_point EXCEPT !.body = point_body]
    /\ ppc' = "changed"
    /\ UNCHANGED <<new_point, well_formed>>
    /\ PntFrame

ChangeDigest(digest) ==
    /\ ppc = "new"
    /\ digest # cur_point.digest
    /\ cur_point' = [cur_point EXCEPT !.digest = digest]
    /\ ppc' = "changed"
    /\ UNCHANGED <<new_point, well_formed>>
    /\ PntFrame

ChangeSignature(signature) ==
    /\ ppc = "new"
    /\ signature # cur_point.signature
    /\ cur_point' = [cur_point EXCEPT !.signature = signature]
    /\ ppc' = "changed"
    /\ UNCHANGED <<new_point, well_formed>>
    /\ PntFrame

NextPnt ==
    \/ \E key_pair \in KeyPairs, point_body \in PlainBodies : PointNew(key_pair, point_body)
    \/ \E point_body \in PlainBodies : ChangeBody(point_body)
    \/ \E digest \in SomeDigests : ChangeDigest(digest)
    \/ \E signature \in SomeSignatures : ChangeSignature(signature)

\* a point of an author with any body is received and is_well_formed is called
IsWellFormed(point_body) ==
    /\ ppc = "none"
    /\ cur_point' = Point_new(KeyPair(point_body.author), point_body)
    /\ IF is_well_formed_panics(point_body)
       THEN /\ ppc' = "panicked"
            /\ UNCHANGED well_formed
       ELSE /\ well_formed' = is_well_formed(point_body)
            /\ ppc' = "checked"
    /\ UNCHANGED new_point
    /\ PntFrame

NextForm == ppc = "none" /\ \E point_body \in Bodies : IsWellFormed(point_body)

\* is_well_formed over the points of any round
NextWide == ppc = "none" /\ \E point_body \in WideBodies : IsWellFormed(point_body)

(***************************************************************************)
(* CachedConfig::init and the statics CONFIG and GENESIS                   *)
(***************************************************************************)
\* the calls of CachedConfig::init a process makes
MaxInits == 2

\* the processes (nodes), each with its own statics
Procs == {"p", "q"}

StartRounds == {1, 2}

\* values of a field of the configuration: one byte and two bytes long
FieldValues == {1, 256}

\* the fields of ConsensusConfig that CachedConfig::init hashes
HashedConsensus ==
    <<"clock_skew_millis", "payload_batch_bytes", "commit_history_rounds",
      "deduplicate_rounds", "max_consensus_lag_rounds">>

\* the fields of a configuration in the model
ConfigFields ==
    {"start_round", "genesis_millis", "clock_skew_millis", "payload_batch_bytes",
     "commit_history_rounds", "deduplicate_rounds", "max_consensus_lag_rounds", "node"}

\* a configuration to start from
DefaultConfig ==
    [start_round |-> 1, genesis_millis |-> 1, clock_skew_millis |-> 1,
     payload_batch_bytes |-> 1, commit_history_rounds |-> 1, deduplicate_rounds |-> 1,
     max_consensus_lag_rounds |-> 1, node |-> "default"]

\* in how many fields a configuration may differ from DefaultConfig
MaxEdits == 2

\* MempoolConfig as MempoolConfigBuilder::build lets it be: genesis_info,
\* the hashed fields of consensus, and node
MempoolConfigs ==
    {c \in [start_round : StartRounds, genesis_millis : FieldValues,
             clock_skew_millis : FieldValues, payload_batch_bytes : FieldValues,
             commit_history_rounds : FieldValues, deduplicate_rounds : FieldValues,
             max_consensus_lag_rounds : FieldValues,
             node : {"default", "other"}] :
        /\ c.max_consensus_lag_rounds >= c.commit_history_rounds
        /\ Cardinality({f \in ConfigFields : c[f] # DefaultConfig[f]}) <= MaxEdits}

\* align_genesis may be any function of the start round to a round
Alignments == [StartRounds -> {GenesisRound, GenesisRound + 1}]

\* the byte of a value below 2^31 at 256^place
byte_at(value, place) == IF place >= 4 THEN 0 ELSE (value \div Pow(256, place)) % 256

\* (value as u128).to_be_bytes() is the 16-byte case
to_be_bytes(value, width) == [i \in 1..width |-> byte_at(value, width - i)]

RECURSIVE Concat(_)
Concat(seqs) == IF seqs = <<>> THEN <<>> ELSE Head(seqs) \o Concat(Tail(seqs))

\* blake3 of the bytes fed to the hasher, taken as collision-free
blake3(bytes) == [blake3 |-> bytes]

\* mutant of overlay_id: genesis_millis is left out of the hash
overlay_id_no_millis(genesis_round, config) ==
    blake3(to_be_bytes(genesis_round, 16)
           \o Concat([i \in 1..Len(HashedConsensus) |->
                        to_be_bytes(config[HashedConsensus[i]], 16)]))

\* the OverlayId CachedConfig::init derives
overlay_id(genesis_round, config) ==
    blake3(to_be_bytes(genesis_round, 16)
           \o to_be_bytes(config.genesis_millis, 16)
           \o Concat([i \in 1..Len(HashedConsensus) |->
                        to_be_bytes(config[HashedConsensus[i]], 16)]))

\* the genesis point, made with the keys derived from the overlay id
genesis(genesis_keys, genesis_round, config) ==
    Point_new(genesis_keys,
              [round |-> genesis_round,
               author |-> PeerId_from(genesis_keys.public_key),
               time |-> config.genesis_millis,
               anchor_time |-> config.genesis_millis,
               payload |-> <<>>, proof |-> NoProof,
               includes |-> [peer \in PeerIds |-> "none"],
               witness |-> [peer \in PeerIds |-> "none"],
               anchor_trigger |-> ToSelf, anchor_proof |-> ToSelf])

\* Point::id
id(p) == [round |-> p.body.round, author |-> p.body.author, digest |-> p.digest]

\* OnceLock::set(value).ok()
set_ok(cell, value) == IF cell = Unset THEN value ELSE cell

NoInit == [config |-> Unset, result |-> "none", overlay_id |-> Unset, genesis |-> Unset]

CfgFrame == UNCHANGED <<locVars, limVars, dlVars, engVars, setVars, pntVars, chnVars>>

IdleCfg ==
    /\ CONFIG = [proc \in Procs |-> Unset]
    /\ GENESIS = [proc \in Procs |-> Unset]
    /\ init_call = [proc \in Procs |-> NoInit]
    /\ inits_made = [proc \in Procs |-> 0]
    /\ aligned = Unset

\* CachedConfig::init(config) in the process proc
CachedConfig_init(proc, config) ==
    /\ init_call[proc].result # "panicked"
    /\ \E alignment \in (IF aligned = Unset THEN Alignments ELSE {aligned}) :
         /\ aligned' = alignment
         /\ \E overlay \in {overlay_id(alignment[config.start_round], config)} :
              \E made \in {id(genesis(KeyPair(overlay), alignment[config.start_round],
                                       config))} :
                /\ CONFIG' = [CONFIG EXCEPT ![proc] = set_ok(@, config)]
                /\ GENESIS' = [GENESIS EXCEPT ![proc] = set_ok(@, made)]
                /\ init_call' = [init_call EXCEPT ![proc] =
                       IF set_ok(GENESIS[proc], made) = made
                       THEN [config |-> config, result |-> "returned",
                             overlay_id |-> overlay, genesis |-> made]
                       ELSE [config |-> config, result |-> "panicked",
                             overlay_id |-> Unset, genesis |-> Unset]]
    /\ inits_made' = [inits_made EXCEPT ![proc] = @ + 1]
    /\ CfgFrame

\* every process calls CachedConfig::init once
NextCfg ==
    \E proc \in Procs :
        /\ inits_made[proc] = 0
        /\ \E config \in MempoolConfigs : CachedConfig_init(proc, config)

\* one process calls CachedConfig::init again
NextCfgAgain ==
    /\ inits_made["p"] < MaxInits
    /\ \E config \in MempoolConfigs : CachedConfig_init("p", config)

(***************************************************************************)
(* ChainBlockProvider::get_next_block                                      *)
(***************************************************************************)
\* the calls of get_next_block that may overlap: the provider is Sync and
\* the method takes &self
MaxCallers == 2

Callers == 1..MaxCallers

Providers == {"left", "right"}

\* a call that has not started, or has returned and may start again
IdleCall == [at |-> "idle", loaded |-> FALSE, by |-> "none", res |-> "none"]

\* MockBlockProvider::get_next_block: Some(block) or None
provider_next_block(which) == IF has_block[which] THEN "Some" ELSE "None"

ChnFrame == UNCHANGED <<locVars, limVars, dlVars, engVars, setVars, pntVars, cfgVars>>

\* chain(): is_right is false; the mock providers hold anything
IdleChn ==
    /\ is_right = FALSE
    /\ has_block = [which \in Providers |-> TRUE]
    /\ next_call = [c \in Callers |-> IdleCall]
    /\ left_none = FALSE

\* the test stores has_block of a mock provider
StoreHasBlock(which, value) ==
    /\ has_block' = [has_block EXCEPT ![which] = value]
    /\ UNCHANGED <<is_right, next_call, left_none>>
    /\ ChnFrame

\* get_next_block up to its first await: is_right.load(Acquire)
GetNextBlock(c) ==
    /\ next_call[c].at \in {"idle", "done"}
    /\ next_call' = [next_call EXCEPT ![c] =
            [at |-> IF is_right THEN "right" ELSE "left",
             loaded |-> is_right, by |-> "none", res |-> "none"]]
    /\ UNCHANGED <<is_right, has_block, left_none>>
    /\ ChnFrame

\* mutant: a None of the left provider does not store is_right
LeftAnswers_no_store(c) ==
    /\ next_call[c].at = "left"
    /\ LET res == provider_next_block("left")
       IN  IF res = "Some"
           THEN /\ next_call' = [next_call EXCEPT ![c].at = "done", ![c].by = "left",
                                                    ![c].res = res]
                /\ UNCHANGED <<is_right, left_none>>
           ELSE /\ next_call' = [next_call EXCEPT ![c].at = "right"]
                /\ left_none' = TRUE
                /\ UNCHANGED is_right
    /\ UNCHANGED has_block
    /\ ChnFrame

\* self.left.get_next_block(prev_block_id).await is ready: return Some, or
\* is_right.store(true, Release) and go on to the right provider
LeftAnswers(c) ==
    /\ next_call[c].at = "left"
    /\ LET res == provider_next_block("left")
       IN  IF res = "Some"
           THEN /\ next_call' = [next_call EXCEPT ![c].at = "done", ![c].by = "left",
                                                    ![c].res = res]
                /\ UNCHANGED <<is_right, left_none>>
           ELSE /\ next_call' = [next_call EXCEPT ![c].at = "right"]
                /\ is_right' = TRUE
                /\ left_none' = TRUE
    /\ UNCHANGED has_block
    /\ ChnFrame

\* self.right.get_next_block(prev_block_id).await is ready
RightAnswers(c) ==
    /\ next_call[c].at = "right"
    /\ next_call' = [next_call EXCEPT ![c].at = "done", ![c].by = "right",
                                       ![c].res = provider_next_block("right")]
    /\ UNCHANGED <<is_right, has_block, left_none>>
    /\ ChnFrame

NextChn ==
    \/ \E which \in Providers, value \in BOOLEAN : StoreHasBlock(which, value)
    \/ \E c \in Callers : GetNextBlock(c)
    \/ \E c \in Callers : LeftAnswers(c)
    \/ \E c \in Callers : RightAnswers(c)

(***************************************************************************)
(* Specifications, one for each part                                       *)
(***************************************************************************)
\* a fresh location, a fresh limiter and no download task
InitIdle == InitLoc /\ IdleLim /\ IdleDl /\ IdleEng /\ IdleSet /\ IdlePnt /\ IdleCfg /\ IdleChn

SpecLoc == InitIdle /\ [][NextLoc]_vars

SpecLim == InitIdle /\ [][NextLim]_vars
SpecLimFair == InitIdle /\ [][NextLimFair]_vars /\ FairLim

SpecDl == InitIdle /\ [][NextDl]_vars

SpecDlHolders == InitIdle /\ [][NextDlHolders]_vars /\ FairDl

SpecDlAuthor == InitIdle /\ [][NextDlAuthor]_vars
SpecFan == InitIdle /\ [][NextFan]_vars

SpecEng == InitIdle /\ [][NextEng]_vars

SpecRestart == InitIdle /\ [][NextRestart]_vars

SpecSet == InitIdle /\ [][NextSet]_vars

SpecPnt == InitIdle /\ [][NextPnt]_vars

SpecForm == InitIdle /\ [][NextForm]_vars

SpecWide == InitIdle /\ [][NextWide]_vars

SpecCfg == InitIdle /\ [][NextCfg]_vars

SpecCfgAgain == InitIdle /\ [][NextCfgAgain]_vars

SpecChn == InitIdle /\ [][NextChn]_vars

(***************************************************************************)
(* Claims about the limiter of the downloader                              *)
(***************************************************************************)
\* C8 as stated: at most CONCURRENT_DOWNLOADS calls are let in by the limiter
\* and have not left run_task
C8_AtMostConcurrentDownloads == Cardinality(Admitted) <= CONCURRENT_DOWNLOADS

\* C8 amended: at most CONCURRENT_DOWNLOADS + 1 calls are let in by the
\* limiter and have not left run_task, and the counter covers them
C8_AtMostConcurrentDownloadsPlusOne ==
    /\ Cardinality(Admitted) <= limiter.running
    /\ limiter.running <= CONCURRENT_DOWNLOADS + 1

\* C8 witness: the limiter is full and a further call has been made to wait
C8_Witness ==
    /\ Cardinality(Admitted) = CONCURRENT_DOWNLOADS + 1
    /\ \E c \in Calls : lpc[c] = "acquire" /\ permits[c] = 0

\* C9: an exit made while calls wait gives a permit to exactly one of them:
\* the one enqueued first among the waiters of the highest waiting round
C9_ExitWakesNewestRoundFifo ==
    [][((\E c \in Calls : lpc[c] = "run_task" /\ lpc'[c] = "done")
          /\ arrival # <<>>) =>
        \E i \in 1..Len(arrival) :
            LET w == arrival[i] IN
            /\ permits'[w] = permits[w] + 1
            /\ \A o \in Calls \ {w} : permits'[o] = permits[o]
            /\ \A j \in 1..Len(arrival) : lround[arrival[j]] <= lround[w]
            /\ \A j \in 1..(i - 1) : lround[arrival[j]] < lround[w]
            /\ arrival' = SelectSeq(arrival, LAMBDA x : x # w)]_vars

\* C9 witness: an exit has woken one call and left another one waiting
C9_Witness == Cardinality(woken) = 1 /\ arrival # <<>>

(***************************************************************************)
(* Claims about the download task                                          *)
(***************************************************************************)
\* F of the task's validator set
TaskF == PeerCountF(task.peer_count)

\* C5: a task returns NotFound only with reliably_not_found >=
\* majority_of_others(peer_count); every unit of reliably_not_found is the
\* Defined(None) answer of a different peer, and a peer that has given it is
\* not among the undone peers any more
C5_NotFoundOnlyAfterMajorityDenied ==
    /\ dres = "NotFound" =>
         task.reliably_not_found >= majority_of_others(task.peer_count)
    /\ task.reliably_not_found = deniers
    /\ \A p \in BagToSet(task.undone_peers) : ~p.denied

C5_Witness ==
    /\ dres = "NotFound"
    /\ task.reliably_not_found = majority_of_others(task.peer_count)
    /\ deniers > 0

\* C6 (as stated): with at most F Byzantine peers, a task in which at most F
\* honest peers answer Defined(None) never returns NotFound
C6_NoNotFoundIfAtMostFHonestDeny ==
    \A byzantine \in 0..TaskF :
        (byzantine <= deniers /\ deniers - byzantine <= TaskF) => dres # "NotFound"

\* C6 (amended): with at most F Byzantine peers among the queried ones, a task
\* in which fewer than F honest peers answer Defined(None) never returns
\* NotFound
C6_NoNotFoundIfFewerThanFHonestDeny ==
    \A byzantine \in 0..TaskF :
        (byzantine <= deniers /\ deniers - byzantine < TaskF) => dres # "NotFound"

\* every Byzantine peer and all but one of F honest peers have denied, and the
\* task goes on
C6_Witness ==
    /\ dres = "running"
    /\ TaskF > 0
    /\ deniers = 2 * TaskF - 1
    /\ task.reliably_not_found = deniers

\* C7: with at least 2F+1 honest Resolved peers that hold the point and answer
\* every query with it, a running task eventually returns Verified, given
\* that interval ticks fire and queries complete
C7_HoldersLeadToVerified == (dres = "running") ~> (dres = "Verified")

\* the task has returned Verified after the other peers gave wrong points
C7_Witness ==
    /\ dres = "Verified"
    /\ task.peer_count = NValidators
    /\ task.unreliable_peers > 0

(***************************************************************************)
(* Claims about committed anchors                                          *)
(***************************************************************************)
\* C3: two honest validators that both commit an anchor of the round commit
\* the same point
C3_Agreement ==
    \A n, m \in Nodes \ faulty :
        (anchors[n] # 0 /\ anchors[m] # 0) => anchors[n] = anchors[m]

\* a Byzantine leader has made two versions, two honest validators committed
C3_Witness ==
    /\ Cardinality(produced) > 1
    /\ \E n, m \in Nodes \ faulty : n # m /\ anchors[n] # 0 /\ anchors[m] # 0

\* the rounds of the anchors sent, in the order of sending
AnchorsSent == SelectSeq(committed_info, LAMBDA r : r.res = "Next")

\* C4: the anchors an engine sends have strictly increasing rounds, inside
\* one run of the commit task and across the runs
C4_AnchorRoundsIncrease ==
    \A i, j \in 1..Len(AnchorsSent) :
        i < j => AnchorsSent[i].round < AnchorsSent[j].round

\* two anchors of one run, and then an anchor of a later run
C4_Witness ==
    /\ Len(AnchorsSent) >= 3
    /\ AnchorsSent[1].task = AnchorsSent[2].task
    /\ AnchorsSent[2].task < AnchorsSent[3].task

(***************************************************************************)
(* Claims about the DAG location                                           *)
(***************************************************************************)
\* C1: once the signed cell of a location holds Ok(Signed) or Reject, no
\* init, sign, reject or insert_own_point changes it any more
C1_SignedSettledOnce ==
    [][signed(state) # Unset => signed(state') = signed(state)]_vars

\* C1 witness: reject was called on a location that holds a signature
C1_Witness == call.op = "reject" /\ signed(state).tag = "ok"

\* C2: a version handed to add_validate after another one stays in versions,
\* is never the candidate returned by signable() and is never signed,
\* whichever validation completes first
C2_EquivocationCannotOverride ==
    \A i \in 2..Len(order) :
        /\ versions[order[i]] # Absent
        /\ \A c \in signable(state) : c.digest # order[i]
        /\ signed(state).tag = "ok" => signed(state).with.over # order[i]

\* C2 witness: the validation of P2 completed first, that of P1 has not
C2_Witness ==
    /\ Len(order) = 2
    /\ versions[order[1]].st = "pending"
    /\ versions[order[2]].st = "ready"
    /\ state.init /\ state.first_completed.digest = order[2]

\* C10 as stated: sign on an undecided location makes a signature iff the
\* first completed verdict is Trusted and its time is within [start, end],
\* and returns true exactly when it made the signature
C10_SignIffTrustedInRange ==
    [][(call'.op = "sign" /\ signed(state) = Unset) =>
          /\ signed(state').tag = "ok" <=>
                (state.first_completed.kind = "Trusted"
                   /\ call'.start <= state.first_completed.time
                   /\ state.first_completed.time <= call'.end)
          /\ call'.ret <=> signed(state').tag = "ok"]_vars

\* C10 amended: sign on an undecided location makes a signature iff the
\* first completed verdict is Trusted, a key pair is given and the point's
\* time is within [start, end]; it returns true exactly when it made the
\* signature, and the signature is over the first completed point
C10_SignIffTrustedKeyedInRange ==
    [][(call'.op = "sign" /\ signed(state) = Unset) =>
          /\ signed(state').tag = "ok" <=>
                (state.first_completed.kind = "Trusted" /\ call'.key_pair
                   /\ call'.start <= state.first_completed.time
                   /\ state.first_completed.time <= call'.end)
          /\ call'.ret <=> signed(state').tag = "ok"
          /\ signed(state').tag = "ok" =>
                signed(state').with.over = state.first_completed.digest]_vars

\* C10 witness: a sign call has just made the signature
C10_Witness == call.op = "sign" /\ call.ret = TRUE /\ signed(state).tag = "ok"

\* C11: when the first completed verdict of a location is not Trusted, the
\* location is rejected from init on, signable() returns none and no sign
\* call returns true or leaves a signature
C11_NotTrustedIsRejectedAtOnce ==
    (state.init /\ state.first_completed.kind # "Trusted") =>
        /\ signed(state) = Reject
        /\ signable(state) = {}
        /\ call.op = "sign" => call.ret = FALSE

\* C11 witness: sign was called on a location whose first completed verdict
\* is Suspicious
C11_Witness ==
    /\ call.op = "sign" /\ call.key_pair
    /\ state.init /\ state.first_completed.kind = "Suspicious"
    /\ call.start <= state.first_completed.time
    /\ state.first_completed.time <= call.end

\* C12: add_validate invokes init and inserts the future only for a digest
\* that is not in versions; for a digest already there it returns None,
\* invokes no init and leaves versions and the inclusion state as they were
C12_AddValidateOnlyIfAbsent ==
    [][call'.op = "add_validate" =>
          /\ state' = state
          /\ IF versions[call'.digest] = Absent
             THEN /\ call'.ret = "Some"
                  /\ inits'[call'.digest] = 1
                  /\ versions'[call'.digest].st = "pending"
                  /\ versions'[call'.digest].hook
                  /\ \A o \in Digests \ {call'.digest} :
                        versions'[o] = versions[o] /\ inits'[o] = inits[o]
             ELSE /\ call'.ret = "None"
                  /\ versions' = versions
                  /\ order' = order
                  /\ inits' = inits]_vars

\* C12 witness: add_validate returned None for a digest whose version came
\* from add_dependency or insert_own_point and was never handed to validation
C12_Witness ==
    /\ call.op = "add_validate" /\ call.ret = "None"
    /\ versions[call.digest] # Absent
    /\ \A i \in 1..Len(order) : order[i] # call.digest

\* C13: over add_dependency and add_validate calls for one digest init is
\* invoked at most once and never for a digest that is present; every
\* add_dependency returns the future that is in versions, which for a
\* present digest is the one that was there, and then neither versions nor
\* the inclusion state changes
C13_AddDependencyIdempotent ==
    [][/\ \A d \in Digests :
            /\ inits'[d] <= 1
            /\ versions[d] # Absent => inits'[d] = inits[d]
       /\ call'.op = "add_dependency" =>
            /\ state' = state
            /\ call'.ret = Shared(inits'[call'.digest])
            /\ IF versions[call'.digest] = Absent
               THEN /\ versions' = [versions EXCEPT ![call'.digest] =
                                       Pending(FALSE, FALSE)]
                    /\ inits'[call'.digest] = 1
               ELSE /\ versions' = versions
                    /\ call'.ret = Shared(inits[call'.digest])]_vars

\* C13 witness: add_dependency on a digest whose validation, started by
\* add_validate, has completed: it returned the future made by that init
C13_Witness ==
    /\ call.op = "add_dependency" /\ call.ret = Shared(1)
    /\ versions[call.digest].st = "ready"
    /\ \E i \in 1..Len(order) : order[i] = call.digest

\* C14: insert_own_point(p) on an empty location leaves p.digest in versions
\* with a ready future and the state settled as Ok(Signed) at the round of p
\* with the signature of p, so that signable() is none and
\* signed_point(p.round) is p; a location that holds a signature is not
\* changed by any later call, sign and reject included
C14_OwnPointIsPreSigned ==
    [][/\ (/\ call'.op = "insert_own_point"
            /\ state = Empty
            /\ \A d \in Digests : versions[d] = Absent) =>
              /\ ~panicked'
              /\ \E p \in OwnPoints :
                    /\ versions' = [versions EXCEPT ![p.digest] = Ready(p)]
                    /\ state'.init /\ state'.first_completed = p
                    /\ signed(state') = OkSigned(LocRound, "local", p.digest)
                    /\ signable(state') = {}
                    /\ signed_point(state', LocRound) = {p}
       /\ signed(state).tag = "ok" =>
              /\ state' = state
              /\ signable(state') = {}
              /\ signed_point(state', signed(state).at) = {state.first_completed}
      ]_vars

\* C14 witness: reject was called after insert_own_point on an empty
\* location (no version was handed to validation, one digest is present)
C14_Witness ==
    /\ call.op = "reject"
    /\ order = <<>>
    /\ Cardinality({d \in Digests : versions[d] # Absent}) = 1
    /\ signed_point(state, LocRound) # {}

(***************************************************************************)
(* Claims about the rounds of the engine                                   *)
(***************************************************************************)
\* C15: the consensus round never decreases, whoever moves it, and whenever
\* an iteration of Engine::run starts the consensus round is not below the
\* round of the DAG top, so the assertion of the loop does not fail
C15_ConsensusRoundNotBelowDagTop ==
    [][/\ consensus_round' >= consensus_round
       /\ epc' = "loop" => consensus_round' >= dag_top'
       /\ failure' # "assert"]_vars

\* C15 witness: an iteration has published its round and starts the next one
\* after another component moved the consensus round beyond the DAG top
C15_Witness ==
    /\ epc = "await"
    /\ published > 0
    /\ published < dag_top - 1

C17_GapToldOnceBeforeNext ==
    [][/\ (committer_run.st = "spawned" /\ committer_run'.st = "sending") =>
            committed_info' =
               IF committer_run.bottom_round > committer_run.committer.top
               THEN Append(committed_info,
                           [res |-> "NewStartAfterGap",
                            round |-> committer_run.bottom_round,
                            task |-> spawned])
               ELSE committed_info
       /\ committer_run.st # "spawned" =>
            \/ committed_info' = committed_info
            \/ /\ Len(committed_info') = Len(committed_info) + 1
               /\ committed_info'[Len(committed_info')].res = "Next"
       /\ \A i, j \in 1..Len(committed_info') :
            i < j =>
              /\ committed_info'[i].task <= committed_info'[j].task
              /\ committed_info'[i].task = committed_info'[j].task =>
                    committed_info'[j].res = "Next"]_vars

\* C17 witness: a task sent an anchor, a later task found a gap, told it and
\* then sent an anchor
C17_Witness ==
    /\ Len(committed_info) >= 3
    /\ \E i \in 2..(Len(committed_info) - 1) :
          /\ committed_info[i - 1].res = "Next"
          /\ committed_info[i].res = "NewStartAfterGap"
          /\ committed_info[i + 1].res = "Next"
          /\ committed_info[i + 1].task = committed_info[i].task

\* C20 as stated: once the round task or the commit task has failed the
\* engine raises the failure, at the await of the round task or at the next
\* iteration that finds the commit task finished, starts no further round,
\* and no commit result is sent after the failure was raised
C20_FailureStopsEngineAndResults ==
    [][/\ (epc = "await" /\ epc' # "await") =>
            \/ epc' = "loop" /\ failure' = "none"
            \/ epc' = "stopped" /\ failure' \in {"resume_unwind", "panic"}
       /\ (epc = "loop" /\ epc' # "loop" /\ committer_run.st = "failed") =>
            epc' = "stopped" /\ failure' = Raised(committer_run.how)
       /\ failure # "none" =>
            /\ epc = "stopped" /\ epc' = "stopped"
            /\ failure' = failure
            /\ <<dag_top, published, own_point, spawned>>' =
                  <<dag_top, published, own_point, spawned>>
            /\ committed_info' = committed_info]_vars

\* C20 amended: the same, but for the results: no commit task is spawned
\* after the failure was raised, while the commit task that runs at that
\* time may still send what it commits
C20_FailureStopsEngine ==
    [][/\ (epc = "await" /\ epc' # "await") =>
            \/ epc' = "loop" /\ failure' = "none"
            \/ epc' = "stopped" /\ failure' \in {"resume_unwind", "panic"}
       /\ (epc = "loop" /\ epc' # "loop" /\ committer_run.st = "failed") =>
            epc' = "stopped" /\ failure' = Raised(committer_run.how)
       /\ failure # "none" =>
            /\ epc = "stopped" /\ epc' = "stopped"
            /\ failure' = failure
            /\ <<dag_top, published, own_point, spawned>>' =
                  <<dag_top, published, own_point, spawned>>
            /\ \A i \in 1..Len(committed_info') :
                  committed_info'[i].task <= spawned]_vars

\* C20 witness: the commit task panicked, the engine went on for a round and
\* raised the panic at the iteration after it
C20_Witness ==
    /\ failure = "resume_unwind"
    /\ committer_run.st = "failed"
    /\ published > 0
    /\ own_point.at = published

(***************************************************************************)
(* Claims about the restart                                                *)
(***************************************************************************)
\* the two latest rounds the store holds
TwoLatest(s) == {r \in s.rounds : Cardinality({q \in s.rounds : q > r}) < 2}

HoldsOwnPoint(s) == s.local_id /\ \E r \in s.own : r >= s.last_round - 1

\* the latest own point the store holds
LatestOwn(s) == SetMax(s.own)

\* C18: after a restart over a store that holds an own point of the local
\* key at last_round - 1 or later, the first iteration gives the round task
\* that stored point and produces none, and every later iteration produces
\* its own point at a round above the round of the stored one
C18_StoredOwnPointIsReplayed ==
    [][(HoldsOwnPoint(store) /\ epc = "loop" /\ epc' = "await") =>
          IF own_point = NoPoint
          THEN /\ own_point'.how = "replayed"
               /\ own_point'.round = LatestOwn(store)
               /\ start_point' = 0
          ELSE /\ own_point'.how = "produced"
               /\ own_point'.round > LatestOwn(store)]_vars

\* C18 witness: the stored own point is of the round before last_round; it
\* was replayed by the first iteration, the second one produced a point
C18_Witness ==
    /\ HoldsOwnPoint(store)
    /\ LatestOwn(store) = store.last_round - 1
    /\ published > 0
    /\ own_point.how = "produced"

(***************************************************************************)
(* Claims about the answers a download task gets                           *)
(***************************************************************************)
\* the peers whose query is in flight
InFlight == {status \in Statuses : status.is_in_flight}

Retried(status) ==
    [status EXCEPT !.is_in_flight = FALSE, !.failed_queries = @ + 1]

\* C30: a TryLater answer or a transport error adds one to the failed_queries
\* of that peer only and clears its in-flight flag; the peer stays undone and
\* may be queried again, reliably_not_found and unreliable_peers stay, and
\* the task goes on unless the NotFound threshold was reached before
C30_TryLaterOnlyCountsFailedQuery ==
    dres = "running" =>
        \A status \in InFlight, response \in {"TryLater", "Err"} :
            LET t0 == [task EXCEPT !.downloading = @ - 1]
                v == verify(t0, status, response)
            IN  /\ v.found = "none"
                /\ v.task.undone_peers = Replace(task.undone_peers, status, Retried(status))
                /\ v.task.reliably_not_found = task.reliably_not_found
                /\ v.task.unreliable_peers = task.unreliable_peers
                /\ v.task.peer_count = task.peer_count
                /\ Retried(status).state = "Resolved" => Retried(status) \in filtered(v.task)
                /\ \A c \in shall_continue(v.task) :
                      /\ c.task.reliably_not_found = task.reliably_not_found
                      /\ c.task.unreliable_peers = task.unreliable_peers
                      /\ BagCardinality(c.task.undone_peers) = BagCardinality(task.undone_peers)
                      /\ ~c.continue =>
                            task.reliably_not_found >= majority_of_others(task.peer_count)

\* C30 witness: a peer was asked and answered TryLater or Err: it is undone
\* with one failed query and not in flight, and the task is running with
\* both counters at zero
C30_Witness ==
    /\ dres = "running"
    /\ \E status \in Statuses : status.failed_queries = 1 /\ ~status.is_in_flight
    /\ task.reliably_not_found = 0
    /\ task.unreliable_peers = 0

\* the author of the point among the undone peers
Author == {status \in Statuses : status.kind = "author"}

\* C29 as stated: the author is among the peers of a download task, and its
\* Defined(None) never adds to reliably_not_found, so it does not bring the
\* task closer to NotFound
C29_AuthorNoneIsNotReliable ==
    dres = "running" =>
        \A status \in Author \cap InFlight :
            LET t0 == [task EXCEPT !.downloading = @ - 1]
                v == verify(t0, status, "None")
            IN  /\ v.task.reliably_not_found = task.reliably_not_found
                /\ \A c \in shall_continue(v.task) : c.continue

\* C29 witness: the author was queried and is no longer undone, no peer was
\* found unreliable, and reliably_not_found is one with the task running:
\* the author has answered Defined(None)
C29_Witness ==
    /\ dres = "running"
    /\ Author = {}
    /\ task.reliably_not_found = 1
    /\ task.unreliable_peers = 0
    /\ deniers = 1

Starts(c) == next_call[c].at \in {"idle", "done"} /\ next_call'[c].at \notin {"idle", "done"}

\* the call c returns with this step
Returns(c) == next_call[c].at # "done" /\ next_call'[c].at = "done"

\* C27: a call of get_next_block is answered by the left provider as long
\* as the left provider has not returned None; the call that gets that None
\* goes on to the right provider, and every call from then on asks the right
\* provider only, whatever the left one holds; the chain returns None
\* exactly when the provider that gave the last answer of the call
\* returned None
C27_SwitchesToRightForGood ==
    [][\A c \in Callers :
        /\ Starts(c) =>
              next_call'[c].at = (IF left_none THEN "right" ELSE "left")
        /\ (next_call[c].at = "left" /\ ~Returns(c) /\ next_call'[c] # next_call[c]) =>
              /\ provider_next_block("left") = "None"
              /\ next_call'[c].at = "right"
              /\ left_none'
        /\ Returns(c) =>
              /\ next_call'[c].by = next_call[c].at
              /\ next_call'[c].res = provider_next_block(next_call[c].at)
              /\ next_call'[c].by = "left" => next_call'[c].res = "Some"
              /\ next_call[c].loaded => next_call'[c].by = "right"
        /\ left_none => left_none']_vars

\* C27 witness: the left provider has returned None once and has a block
\* again, and a call that started after that None was answered by the right
\* provider with None
C27_Witness ==
    /\ left_none
    /\ has_block["left"]
    /\ \E c \in Callers :
         /\ next_call[c].at = "done"
         /\ next_call[c].loaded
         /\ next_call[c].by = "right"
         /\ next_call[c].res = "None"

(***************************************************************************)
(* Claims about points                                                     *)
(***************************************************************************)
\* the fields in which the point at hand differs from the one Point::new made
ChangedFields == {f \in {"body", "digest", "signature"} : cur_point[f] # new_point[f]}

\* C21 as stated: for every key pair and every body Point::new yields a
\* point, the point passes is_integrity_ok, and it fails is_integrity_ok
\* once its body, its digest or its signature is changed
C21_EveryNewPointHasIntegrity ==
    /\ ppc # "panicked"
    /\ ppc = "new" => is_integrity_ok(cur_point)
    /\ ppc = "changed" => ~is_integrity_ok(cur_point)

\* C21 amended: Point::new yields a point only for a body whose author is
\* the peer id of the key pair; that point passes is_integrity_ok, and it
\* fails is_integrity_ok once its body, its digest or its signature is
\* changed
C21_NewPointHasIntegrity ==
    /\ ppc = "panicked" => cur_point = NoPt
    /\ ppc = "new" =>
          /\ is_integrity_ok(cur_point)
          /\ \E key_pair \in KeyPairs :
                /\ cur_point.body.author = PeerId_from(key_pair.public_key)
                /\ cur_point = Point_new(key_pair, cur_point.body)
    /\ ppc = "changed" =>
          /\ Cardinality(ChangedFields) = 1
          /\ ~is_integrity_ok(cur_point)

\* C21 witness: a point of Point::new whose body was changed while the
\* author, the digest and the signature were kept
C21_Witness ==
    /\ ppc = "changed"
    /\ ChangedFields = {"body"}
    /\ cur_point.body.author = new_point.body.author
    /\ is_integrity_ok(new_point)

\* a body with nothing in it: no includes, witness, payload or proof, and
\* both links to itself
EmptyBody(body) ==
    /\ is_empty(body.includes)
    /\ is_empty(body.witness)
    /\ body.payload = <<>>
    /\ body.proof = NoProof
    /\ body.anchor_proof = ToSelf
    /\ body.anchor_trigger = ToSelf

\* C22 as stated: of the points at the genesis round or below it, the
\* canonical genesis point is the only one that passes is_well_formed
C22_OnlyCanonicalGenesisIsWellFormed ==
    (ppc = "checked" /\ cur_point.body.round <= GenesisRound) =>
        (well_formed <=> cur_point.body = GenesisBody)

\* C22 amended: a point at the genesis round passes is_well_formed exactly
\* when its body is empty and its time is not before its anchor time,
\* whoever its author is; the canonical genesis point is one of these; every
\* point below the genesis round fails
C22_EmptyGenesisRoundPointIsWellFormed ==
    /\ is_well_formed(GenesisBody)
    /\ (ppc = "checked" /\ cur_point.body.round <= GenesisRound) =>
          (well_formed <=> /\ cur_point.body.round = GenesisRound
                           /\ EmptyBody(cur_point.body)
                           /\ cur_point.body.time >= cur_point.body.anchor_time)

\* C22 witness: a point at the genesis round by another author and of
\* another time than the canonical genesis point has passed is_well_formed
C22_Witness ==
    /\ ppc = "checked"
    /\ cur_point.body.round = GenesisRound
    /\ cur_point.body.author # GenesisBody.author
    /\ cur_point.body.time # GenesisBody.time
    /\ well_formed = TRUE

\* C23: a point off the genesis round that passes is_well_formed has its own
\* author in includes exactly when it has a proof, the digest listed there
\* is proof.digest, and the evidence of the proof has no entry of the author
C23_ProofIsListedInIncludes ==
    (ppc = "checked" /\ cur_point.body.round # GenesisRound /\ well_formed) =>
        LET body == cur_point.body
        IN  /\ contains_key(body.includes, body.author) <=> body.proof # NoProof
            /\ body.proof # NoProof =>
                  /\ body.includes[body.author] = body.proof.digest
                  /\ body.author \notin body.proof.evidence

\* C23 witness: a point above the genesis round with a proof has passed
\* is_well_formed, with signatures of others as evidence
C23_Witness ==
    /\ ppc = "checked"
    /\ cur_point.body.round > GenesisRound
    /\ cur_point.body.proof # NoProof
    /\ cur_point.body.proof.evidence # {}
    /\ well_formed = TRUE

(***************************************************************************)
(* Claims about CachedConfig                                               *)
(***************************************************************************)
\* the fields CachedConfig::init hashes as they are
HashedFields ==
    {"genesis_millis"} \cup {HashedConsensus[i] : i \in 1..Len(HashedConsensus)}

\* both processes have made their call of CachedConfig::init
BothReturned == \A proc \in Procs : init_call[proc].result = "returned"

\* C24 as stated: two configurations that differ in the genesis start round
\* or in another hashed field get different overlay ids and different
\* genesis points
C24_DifferentFieldsDifferentOverlay ==
    BothReturned =>
        ((\E f \in HashedFields \cup {"start_round"} :
             init_call["p"].config[f] # init_call["q"].config[f])
         => /\ init_call["p"].overlay_id # init_call["q"].overlay_id
            /\ GENESIS["p"] # GENESIS["q"])

\* C24 amended: two configurations get different overlay ids and different
\* genesis points when they differ in the genesis round that align_genesis
\* makes of the start round, or in another hashed field; they get the same
\* overlay id otherwise
C24_DifferentHashedDifferentOverlay ==
    BothReturned =>
        LET differ == \/ aligned[init_call["p"].config.start_round]
                           # aligned[init_call["q"].config.start_round]
                      \/ \E f \in HashedFields :
                            init_call["p"].config[f] # init_call["q"].config[f]
        IN  /\ differ <=> init_call["p"].overlay_id # init_call["q"].overlay_id
            /\ differ => GENESIS["p"] # GENESIS["q"]

\* C24 witness: two processes were given configurations that differ in
\* payload_batch_bytes only, one byte against two, and got different
\* overlay ids
C24_Witness ==
    /\ BothReturned
    /\ {f \in ConfigFields : init_call["p"].config[f] # init_call["q"].config[f]}
         = {"payload_batch_bytes"}
    /\ init_call["p"].overlay_id # init_call["q"].overlay_id

\* C25 as stated: once CachedConfig::init was called, CONFIG and GENESIS
\* stay as they are, and a later call with a configuration other than the
\* stored one is rejected: it panics instead of returning
C25_SecondInitWithOtherDataRejected ==
    [][/\ CONFIG["p"] # Unset => UNCHANGED <<CONFIG, GENESIS>>
       /\ (inits_made'["p"] >= 2 /\ init_call'["p"].config # CONFIG'["p"]) =>
             init_call'["p"].result = "panicked"]_vars

\* C25 witness: a second call of CachedConfig::init with another node
\* configuration has returned, and CONFIG holds the configuration of the
\* first call
C25_Witness ==
    /\ inits_made["p"] = 2
    /\ init_call["p"].result = "returned"
    /\ init_call["p"].config.node # CONFIG["p"].node
    /\ init_call["p"].genesis = GENESIS["p"]

(***************************************************************************)
(* Claims about the select loop and the fan-out of the download task       *)
(***************************************************************************)
\* a step of the loop of DownloadTask::run: the task or its result changes and
\* the owner of the task has not dropped it
LoopStep == senders' = senders /\ <<task, dres>>' # <<task, dres>>

\* C31: when a verified broadcast is ready as the loop selects, the step of
\* the loop returns Verified, whatever else is pending; the task never
\* returns NotFound or IllFormed over a ready broadcast
C31_ReadyBroadcastIsTakenFirst ==
    [][/\ (dres = "running" /\ verified_broadcast = "sent" /\ LoopStep)
            => dres' = "Verified" /\ verified_broadcast' = "taken"
       /\ dres' \in {"NotFound", "IllFormed", "panicked"}
            => verified_broadcast' # "sent"]_vars

\* C31 witness: the broadcast was taken by a task that was one Defined(None)
\* away from NotFound and had met an unreliable peer
C31_Witness ==
    /\ dres = "Verified"
    /\ verified_broadcast = "taken"
    /\ task.reliably_not_found + 1 = majority_of_others(task.peer_count)
    /\ task.unreliable_peers > 0

\* the peers a fan-out may query, as many times as undone_peers holds them
Eligible(t) ==
    [p \in {q \in BagToSet(t.undone_peers) : q.state = "Resolved" /\ ~q.is_in_flight}
        |-> CopiesIn(p, t.undone_peers)]

\* C32: a fan-out queries min(DOWNLOAD_PEERS * DOWNLOAD_PEERS^attempt, eligible)
\* peers, all of them Resolved with no query in flight; no peer left out has
\* fewer failed queries than a queried one, and none left out is a depender
\* with as many failed queries as a queried peer that is not a depender
C32_FanOutTakesTheFirstPeers ==
    [][Tick =>
         LET chosen == task.undone_peers (-) task'.undone_peers
             left == Eligible(task) (-) chosen
             count == DOWNLOAD_PEERS * Pow(DOWNLOAD_PEERS, task.attempt)
         IN  /\ BagCardinality(chosen) = SetMin({count, BagCardinality(Eligible(task))})
             /\ task'.downloading = task.downloading + BagCardinality(chosen)
             /\ \A p \in BagToSet(chosen) : p.state = "Resolved" /\ ~p.is_in_flight
             /\ \A p \in BagToSet(chosen), o \in BagToSet(left) :
                   /\ p.failed_queries <= o.failed_queries
                   /\ (p.failed_queries = o.failed_queries /\ o.is_depender)
                        => p.is_depender]_vars

\* C32 witness: after the first fan-out two queries are in flight, to a peer
\* that has not failed and to a depender that has; left out are a peer with
\* as many failed queries that is not a depender, and an Unknown peer
C32_Witness ==
    /\ dres = "running"
    /\ task.attempt = 1
    /\ task.downloading = DOWNLOAD_PEERS
    /\ \E p \in Statuses : p.is_in_flight /\ p.failed_queries = 0
    /\ \E p \in Statuses : p.is_in_flight /\ p.is_depender /\ p.failed_queries = 1
    /\ \E o \in BagToSet(Eligible(task)) : ~o.is_depender /\ o.failed_queries = 1
    /\ \E o \in Statuses : o.state = "Unknown" /\ ~o.is_in_flight

\* C35: every peer has at most one query in flight and the in-flight flag
\* tells whether it has one; no query outlives the entry of its peer, so every
\* completed query finds its peer in undone_peers with the flag set, and the
\* assertions of download_one and verify never fail
C35_OneQueryInFlightPerPeer ==
    /\ dres # "panicked"
    /\ ~task.panic
    /\ task.orphans = 0
    /\ \A p \in Statuses : p.queries = (IF p.is_in_flight THEN 1 ELSE 0)
    /\ task.downloading =
          BagCardinality([p \in {q \in Statuses : q.is_in_flight}
                             |-> CopiesIn(p, task.undone_peers)])
    /\ \A p \in Queried(task) : BagIn(p, task.undone_peers) /\ p.is_in_flight

\* C35 witness: a depender that has failed a query is queried again by a
\* fan-out while another query is in flight and a peer has been removed
C35_Witness ==
    /\ dres = "running"
    /\ task.attempt > 0
    /\ task.downloading > 1
    /\ BagCardinality(task.undone_peers) < NValidators
    /\ \E p \in Statuses : p.is_in_flight /\ p.is_depender /\ p.failed_queries > 0

(***************************************************************************)
(* Claims about the time range of sign and about dependencies              *)
(***************************************************************************)
\* a sign call is made on a Trusted candidate
SignsTrusted == call'.op = "sign" /\ state.first_completed.kind = "Trusted"

\* C34 as stated: on an undecided Trusted candidate a sign call whose range
\* ends before the point's time leaves the decision unset, one whose range
\* contains the time signs, one whose range starts after the time settles
\* Reject; a sign call on a settled location returns false, changes nothing
C34_RangeAloneDecides ==
    [][SignsTrusted =>
         LET time == state.first_completed.time IN
         /\ (signed(state) = Unset /\ call'.end < time)
               => state' = state /\ signable(state') = {state.first_completed}
         /\ (signed(state) = Unset /\ contains(call'.start, call'.end, time))
               => signed(state').tag = "ok" /\ call'.ret
         /\ (signed(state) = Unset /\ time < call'.start)
               => signed(state') = Reject
         /\ signed(state) # Unset => state' = state /\ ~call'.ret]_vars

\* C34 amended: with a key pair, a range that starts at or before the point's
\* time and ends before it leaves the decision unset, a range that contains
\* the time signs, a range that starts after the time settles Reject;
\* without a key pair every range settles Reject; a sign call on a settled
\* location returns false and changes nothing
C34_RangeDecidesWithKeyPair ==
    [][SignsTrusted =>
         LET time == state.first_completed.time IN
         /\ (signed(state) = Unset /\ call'.key_pair
                /\ call'.start <= time /\ call'.end < time)
               => /\ state' = state
                  /\ signable(state') = {state.first_completed}
                  /\ ~call'.ret
         /\ (signed(state) = Unset /\ call'.key_pair
                /\ contains(call'.start, call'.end, time))
               => signed(state').tag = "ok" /\ call'.ret
         /\ (signed(state) = Unset /\ (time < call'.start \/ ~call'.key_pair))
               => signed(state') = Reject /\ ~call'.ret
         /\ signed(state) # Unset => state' = state /\ ~call'.ret]_vars

\* C34 witness: a sign call with a key pair has come too early for the point
\* and has left the Trusted candidate to be signed later
C34_Witness ==
    /\ call.op = "sign"
    /\ call.key_pair
    /\ ~call.ret
    /\ state.init /\ state.first_completed.kind = "Trusted"
    /\ call.start <= call.end
    /\ call.end < state.first_completed.time
    /\ signable(state) = {state.first_completed}

\* the version of digest d came into the location by add_dependency: init
\* was invoked for it and add_validate has not inserted it
ViaDependency(d) ==
    /\ versions[d] # Absent
    /\ inits[d] > 0
    /\ \A i \in 1..Len(order) : order[i] # d

\* C39: a version that came in by add_dependency never initialises the
\* inclusion state: its completion leaves the state as it is, a later
\* add_validate for its digest returns None and changes no version, and it
\* is never the first completed point of the location
C39_DependencyNeverInitialises ==
    [][\A d \in Digests :
         ViaDependency(d) =>
           /\ versions'[d] # Absent /\ inits'[d] > 0
           /\ \A i \in 1..Len(order') : order'[i] # d
           /\ (versions[d].st = "pending" /\ versions'[d].st = "ready")
                 => state' = state
           /\ (call'.op = "add_validate" /\ call'.digest = d)
                 => call'.ret = "None" /\ versions' = versions /\ inits' = inits
           /\ ~(state'.init /\ state'.first_completed.digest = d)]_vars

\* C39 witness: the dependency has completed, add_validate for its digest has
\* returned None, and the candidate of the location is another version
C39_Witness ==
    /\ call.op = "add_validate"
    /\ call.ret = "None"
    /\ ViaDependency(call.digest)
    /\ versions[call.digest].st = "ready"
    /\ state.init
    /\ state.first_completed.digest # call.digest

(***************************************************************************)
(* Claims about the slots of the limiter                                   *)
(***************************************************************************)
\* C36 as stated: when every call of Downloader::run has returned or was
\* dropped, the limiter has no slot taken and no waiter, and no exit gives
\* its slot to a call that was dropped
C36_DroppedFutureReleasesSlot ==
    /\ (\A c \in Calls : lpc[c] \in {"new", "done", "dropped"})
          => limiter.running = 0 /\ DOMAIN limiter.waiters = {}
    /\ \A w \in woken : lpc[w.call] # "dropped"

\* C36 witness: every call has returned or was dropped, a call was dropped
\* inside run_task or with its permit, and its slot is still taken
C36_Witness ==
    /\ \A c \in Calls : lpc[c] \in {"done", "dropped"}
    /\ \E c \in Calls : lpc[c] = "dropped"
    /\ \E c \in Calls : lpc[c] = "done"
    /\ limiter.running > 0
    /\ DOMAIN limiter.waiters = {}

\* the call waits in the limiter
Waits(c) == lpc[c] = "acquire" /\ permits[c] = 0

\* a call for a newer round is enqueued while call c waits
NewerEnqueued(c) ==
    /\ Waits(c)
    /\ \E o \in Calls \ {c} :
         lpc[o] = "new" /\ lpc'[o] = "acquire" /\ lround'[o] > lround[c]

\* C37 as stated: every call that waits in the limiter is let in at last,
\* given that every call that was let in returns
C37_EveryWaiterIsAdmitted ==
    \A c \in Calls : Waits(c) ~> (lpc[c] = "run_task")

\* C37 amended: a call that waits in the limiter is let in at last, given
\* that every call that was let in returns, unless calls for newer rounds
\* are enqueued again and again while it waits
C37_WaiterAdmittedUnlessNewerKeepComing ==
    \A c \in Calls :
        \/ []<><<NewerEnqueued(c)>>_vars
        \/ Waits(c) ~> (lpc[c] = "run_task")

\* C37 witness: the waiter of an older round is the one an exit has woken,
\* after the waiters of the newest round
C37_Witness ==
    /\ \E w \in woken : w.round < MaxLimRound
    /\ arrival = <<>>
    /\ \E c \in Calls : lpc[c] = "run_task" /\ lround[c] = 0

\* C40: the limiter code never panics and no round of `waiters` has an empty
\* queue; an exit made while calls wait gives one permit to a semaphore that
\* had none and leaves `running` as it is, an exit made while none waits
\* takes one from a positive `running`; as long as no future is dropped,
\* `running` is the number of calls let in that have not left run_task
C40_RunningCountsAdmitted ==
    [][/\ ~lpanic'
       /\ \A r \in DOMAIN limiter'.waiters : limiter'.waiters[r] # <<>>
       /\ (\E c \in Calls : lpc[c] = "run_task" /\ lpc'[c] = "done") =>
             IF DOMAIN limiter.waiters # {}
             THEN /\ limiter'.running = limiter.running
                  /\ Cardinality(woken') = 1
                  /\ \A w \in woken' : permits[w.call] = 0 /\ permits'[w.call] = 1
             ELSE /\ limiter.running > 0
                  /\ limiter'.running = limiter.running - 1
                  /\ woken' = {}
       /\ (\A c \in Calls : lpc'[c] # "dropped")
             => limiter'.running = Cardinality(Admitted')]_vars

\* C40 witness: no future was dropped, an exit has woken a waiter and the
\* limiter is as full as before
C40_Witness ==
    /\ \A c \in Calls : lpc[c] # "dropped"
    /\ Cardinality(woken) = 1
    /\ limiter.running = CONCURRENT_DOWNLOADS + 1
    /\ Cardinality(Admitted) = CONCURRENT_DOWNLOADS + 1

(***************************************************************************)
(* Claims about the rounds handed to the commit task                       *)
(***************************************************************************)
\* the engine spawns a commit task in this step
SpawnsCommitTask == spawned' = spawned + 1

\* the rounds the DAG got since the Committer last took rounds in, oldest
\* first
RoundsSinceHandover == filled(committer_run.committer.top, dag_top')

\* C33: a commit task is spawned only when the one before it has finished and
\* has given the Committer back, and it gets that Committer; the rounds the
\* DAG got in an iteration of the loop that spawns no task are added to the buffer after
\* the rounds it holds; the task that is spawned is handed every round the DAG
\* got since the last handover, oldest first and none left out, before
\* anything else, its last round is the top the task extends to, and the
\* buffer is empty after the handover
C33_OneCommitTaskGetsEveryRound ==
    [][/\ SpawnsCommitTask =>
            /\ committer_run.st = "finished"
            /\ committer_run'.st = "spawned"
            /\ committer_run'.committer = committer_run.committer
            /\ rounds_buffer' = <<>>
            /\ Len(moved_rounds_buf') >= Len(RoundsSinceHandover)
            /\ SubSeq(moved_rounds_buf', 1, Len(RoundsSinceHandover))
                  = RoundsSinceHandover
            /\ moved_rounds_buf'[Len(moved_rounds_buf')] = committer_run'.top_round
       /\ (epc # "pre_run" /\ ~SpawnsCommitTask /\ failure' # "assert") =>
            /\ rounds_buffer' = rounds_buffer \o filled(dag_top, dag_top')
            /\ moved_rounds_buf' \in {moved_rounds_buf, <<>>}
            /\ committer_run.st # "spawned" => moved_rounds_buf = <<>>]_vars

\* C33 witness: the second commit task was spawned and is handed, first, two
\* rounds the DAG got since the first one was spawned
C33_Witness ==
    /\ spawned >= 2
    /\ committer_run.st = "spawned"
    /\ rounds_buffer = <<>>
    /\ Len(moved_rounds_buf) >= 2
    /\ moved_rounds_buf[1] = committer_run.committer.top + 1
    /\ moved_rounds_buf[2] = committer_run.committer.top + 2
    /\ committer_run.committer.top >= GenesisRound

(***************************************************************************)
(* Claims about the round arithmetic of is_well_formed                     *)
(***************************************************************************)
\* C38: is_well_formed gives a boolean for every point a peer may send: it
\* never panics, in Round::next or in Round::prev
C38_WellFormedNeverPanics == ppc # "panicked"

\* C38 witness: is_well_formed panicked on a point of the round after the
\* genesis round whose anchor proof is an Indirect link, through a point it
\* includes, to a point of the greatest round
C38_Witness ==
    /\ ppc = "panicked"
    /\ cur_point.body.round = next(GenesisRound)
    /\ cur_point.body.anchor_proof.link = "Indirect"
    /\ cur_point.body.anchor_proof.through = "Includes"
    /\ cur_point.body.anchor_proof.to = RoundMax

\* Round::prev is not what panics: no point makes is_well_formed reach a
\* prev() of round 0
C38_PrevNeverUnderflows ==
    ppc = "panicked" =>
        \/ is_link_well_formed_panics(cur_point.body, "anchor_proof")
        \/ is_link_well_formed_panics(cur_point.body, "anchor_trigger")
====
